---- MODULE Spec2Model ----
(***************************************************************************)
(* Model of gatsby-source-strapi-advanced (src/src/StrapiSourcePlugin.ts). *)
(*                                                                         *)
(* The plugin is modelled as several state machines over one set of        *)
(* variables, one specification per subsystem:                             *)
(*   SpecFetch   fetchEntities: pagination / single-type fetch             *)
(*   SpecMedia   mapMedia: the media cache and the remote file nodes       *)
(*   SpecMap     mapEntityType: the recursive content mapper               *)
(*   SpecSchema  createSchemaCustomization / defineType (SpecSchemaFair:   *)
(*               with the fairness its termination is checked under)       *)
(***************************************************************************)
EXTENDS Integers, Sequences, FiniteSets, TLC

(***************************************************************************)
(* Bounds of the model.                                                    *)
(***************************************************************************)
MaxRecords == 5
MaxPageSize == 3
MaxUpdatedAt == 2

(***************************************************************************)
(* Program constants.                                                      *)
(***************************************************************************)
DEFAULT_PAGE_SIZE == 100
DEFAULT_API_URL == "http://localhost:1337"

Min(a, b) == IF a < b THEN a ELSE b

(***************************************************************************)
(* Entity Fetcher state.                                                   *)
(*   kind[t]      schema.kind of content type t                            *)
(*   server[t]    the records the server holds for t, in server order      *)
(*   pageSize     this.pageSize                                            *)
(*   fetchPc[t]   position of the fetchEntities(t) call                    *)
(*   index[t], result[t]   the locals of fetchEntities                     *)
(*   requests[t]  the GET requests issued for t, oldest first              *)
(*   pages[t]     the length of every page response received, in order     *)
(***************************************************************************)
VARIABLES kind, server, pageSize, fetchPc, index, result, requests, pages

(***************************************************************************)
(* Media Cache state.                                                      *)
(*   cache[k]     the entry stored under the cache key k                  *)
(*   liveNodes    the file nodes getNode resolves                          *)
(*   touched      the nodes touchNode was called for                      *)
(*   blobCalls    the createRemoteFileNode calls made, oldest first        *)
(*   nextNode     the id of the next file node createRemoteFileNode makes  *)
(*   mtask[m]     the state of the mapMedia call m                         *)
(***************************************************************************)
VARIABLES cache, liveNodes, touched, blobCalls, nextNode, mtask

(***************************************************************************)
(* Type Registry state.                                                    *)
(*   contentTypeMap     this.contentTypeMap, apiID -> EntityType           *)
(*   componentTypeMap   this.componentTypeMap, uid -> EntityType           *)
(*   contentTypes       this.contentTypes, the retained content types      *)
(***************************************************************************)
VARIABLES contentTypeMap, componentTypeMap, contentTypes

(***************************************************************************)
(* Content Mapper state.                                                   *)
(*   mapIn     the content type and raw entity of the latest mapping       *)
(*   mapOut    its outcome: the mapped data, or the error                  *)
(*   mapLog    what the latest mapping did: the scalars passed through and *)
(*             the paths mapEntityType was called at                       *)
(*   rtLog     every (text, reference) pair mapRichtext has returned       *)
(*   sink      the nodes handed to createNode, by node id                  *)
(*   handed    the createNode calls of the mapper, oldest first: the id    *)
(*             and the type of the node                                    *)
(*   mapped    the number of entities mapped so far                        *)
(***************************************************************************)
VARIABLES mapIn, mapOut, mapLog, rtLog, sink, handed, mapped

(***************************************************************************)
(* Type Definition Generator state.                                        *)
(*   graphqlTypes   this.graphqlTypes, the entries [name, def] in          *)
(*                  insertion order; def is the reserved slot or a         *)
(*                  declaration                                            *)
(*   schemaPc       position of the createSchemaCustomization call         *)
(*   ctIndex        the index of the loop over this.contentTypes           *)
(*   callStack      the defineType calls in progress, outermost first:     *)
(*                  the type, the attribute being mapped, the fields so far*)
(*   typeDefs       the declarations handed to createTypes                 *)
(*   reserved       the type names defineType reserved a slot for, in order*)
(*   placeholders   the type names for which defineType returned the       *)
(*                  reserved slot of a call still in progress              *)
(***************************************************************************)
VARIABLES graphqlTypes, schemaPc, ctIndex, callStack, typeDefs, reserved, placeholders

(***************************************************************************)
(* Run state: the two hooks of gatsby-node on the shared plugin instance.  *)
(*   options       the plugin options the constructor read                 *)
(*   servedTypes   the content types the content-types endpoint returns    *)
(*   initialized   this.initialized                                        *)
(*   hook[h]       the invocation of hook h: its position, the schema      *)
(*                 requests of its init still in flight, and its error     *)
(*   schemaReqs    the schema requests issued, oldest first                *)
(*   typePc[t]     the task of sourceNodes for content type t              *)
(*   entityReqs    the content types an entity request was issued for      *)
(*   records[t]    the number of raw records fetched for t                 *)
(*   runNodes[t]   the number of entity nodes of t handed to createNode    *)
(*   panics        the number of reporter.panic calls                      *)
(*   timer         the calls of fetchActivity.start and fetchActivity.end  *)
(*   token         this.token ("" while undefined)                         *)
(*   requestConfig the Authorization header of this.requestConfig ("" while*)
(*                 undefined)                                              *)
(*   loginPosts    the number of posts to auth/local                       *)
(*   loginLog      the tokens the server returned to a login, oldest first *)
(*   sent          the get requests as the server saw them: the path, the  *)
(*                 Authorization header, and the number of logins answered *)
(*                 before the request                                      *)
(***************************************************************************)
VARIABLES options, servedTypes, initialized, hook, schemaReqs, typePc, entityReqs,
          records, runNodes, panics, timer
VARIABLES token, requestConfig, loginPosts, loginLog, sent

fetchVars == <<kind, server, pageSize, fetchPc, index, result, requests, pages>>
mediaVars == <<cache, liveNodes, touched, blobCalls, nextNode, mtask>>

registryVars == <<contentTypeMap, componentTypeMap, contentTypes>>
mapVars == <<mapIn, mapOut, mapLog, rtLog, sink, handed, mapped>>
schemaVars == <<graphqlTypes, schemaPc, ctIndex, callStack, typeDefs, reserved, placeholders>>
authVars == <<token, requestConfig, loginPosts, loginLog, sent>>
runVars == <<options, servedTypes, initialized, hook, schemaReqs, typePc, entityReqs,
             records, runNodes, panics, timer, authVars>>

vars == <<fetchVars, mediaVars, registryVars, mapVars, schemaVars, runVars>>

notFetch == <<mediaVars, registryVars, mapVars, schemaVars, runVars>>
notMedia == <<fetchVars, registryVars, mapVars, schemaVars, runVars>>
notSchema == <<fetchVars, mediaVars, registryVars, mapVars, runVars>>
notRun == <<fetchVars, mediaVars, mapVars, schemaVars>>

(***************************************************************************)
(* Media values.                                                           *)
(***************************************************************************)
MediaTasks == {"m1", "m2"}
MediaKeys == {"cover", "image"}
MediaIds == {1, 2}

\* The url the server reports for an asset: relative for uploads kept by the
\* server itself, absolute for assets kept by an external provider.
UrlOf(id) == IF id = 1 THEN "/uploads/a.png" ELSE "http://cdn/b.png"

\* media.url.startsWith('http')
StartsWithHttp(url) == url \in {"http://cdn/b.png"}

\* `${media.url.startsWith('http') ? '' : this.apiURL}${media.url}`
FullUrl(url) == (IF StartsWithHttp(url) THEN "" ELSE DEFAULT_API_URL) \o url

\* A field value that holds no media object (undefined or null).
NoMedia == [present |-> FALSE, id |-> 0, url |-> "", updated_at |-> 0]

\* Strapi.Media, reduced to the fields mapMedia reads; url "" is a missing url.
MediaDescriptors ==
    {[present |-> TRUE, id |-> i, url |-> u, updated_at |-> ts] :
        i \in MediaIds, u \in {"", UrlOf(1), UrlOf(2)}, ts \in 1..MaxUpdatedAt}

MediaInputs ==
    {NoMedia} \cup {d \in MediaDescriptors : d.url = "" \/ d.url = UrlOf(d.id)}

\* cache.get(cacheKey) found nothing.
NoEntry == [present |-> FALSE, fileNodeID |-> 0, updated_at |-> 0]

\* { fileNodeID, updated_at }
CacheEntry(node, ts) == [present |-> TRUE, fileNodeID |-> node, updated_at |-> ts]

\* The file node an earlier run stored for an asset.
OldFileNode(id) == id

\* const cacheKey = `strapi-media-${media.id}`; // -${key}
CacheKey_Field(key, media) == "strapi-media-" \o ToString(media.id) \o "-" \o key
CacheKey(key, media) == "strapi-media-" \o ToString(media.id)

\* The keys the cache is read and written under.
CacheKeys == {CacheKey(key, [id |-> i]) : key \in MediaKeys, i \in MediaIds}

\* The cache that holds the entry old[i] for the asset i, stored by a mapping
\* of the field cover.
CacheOf(old) ==
    [k \in CacheKeys |->
        IF \E i \in MediaIds : k = CacheKey("cover", [id |-> i])
        THEN old[CHOOSE i \in MediaIds : k = CacheKey("cover", [id |-> i])]
        ELSE NoEntry]

\* { fileNodeID: fileNode.id, updated_at: media.updated_at }
WrittenEntry_NoTimestamp(fileNode, media) == CacheEntry(fileNode, 0)
WrittenEntry(fileNode, media) == CacheEntry(fileNode, media.updated_at)

\* The first file node id createRemoteFileNode hands out in this run.
FirstNewNode == Cardinality(MediaIds) + 1

\* The [key, value] pairs mapMedia returns.
NoRet == [key |-> "", tag |-> "none", node |-> 0, media |-> NoMedia]
AbsentRef(key) == [key |-> key \o "___NODE", tag |-> "absent", node |-> 0, media |-> NoMedia]
NodeRef(key, node) == [key |-> key \o "___NODE", tag |-> "node", node |-> node, media |-> NoMedia]
RawMedia(key, media) == [key |-> key, tag |-> "raw", node |-> 0, media |-> media]

IdleTask ==
    [pc |-> "idle", key |-> "", media |-> NoMedia, cacheData |-> NoEntry,
     nodeResolved |-> FALSE, fileNode |-> 0, ret |-> NoRet, raised |-> FALSE,
     blob |-> 0, hit |-> FALSE, wrote |-> FALSE, logged |-> FALSE, doneBefore |-> {}]

(***************************************************************************)
(* JSON values: the raw records of the server and the mapped data.         *)
(* An object is the sequence of its entries, in insertion order.           *)
(***************************************************************************)
JUndef == [t |-> "undefined"]
JNull == [t |-> "null"]
JNum(n) == [t |-> "number", n |-> n]
JStr(s) == [t |-> "string", s |-> s]
JArr(a) == [t |-> "array", a |-> a]
JObj(o) == [t |-> "object", o |-> o]

Entry(k, v) == [k |-> k, v |-> v]

\* data === undefined || data === null
Nullish(data) == data.t \in {"undefined", "null"}

\* typeof data === 'object', for a value that is not null
TypeofObject(data) == data.t \in {"object", "array"}

\* !value
Falsy(v) ==
    \/ Nullish(v)
    \/ v.t = "number" /\ v.n = 0
    \/ v.t = "string" /\ v.s = ""

HasKey(o, key) == \E i \in 1..Len(o) : o[i].k = key

\* data[key], for a data that is not nullish
Get(data, key) ==
    IF data.t = "object" /\ HasKey(data.o, key)
    THEN data.o[CHOOSE i \in 1..Len(data.o) : data.o[i].k = key].v
    ELSE JUndef

\* obj[k] = v
Put(o, k, v) ==
    IF HasKey(o, k)
    THEN [i \in 1..Len(o) |-> IF o[i].k = k THEN Entry(k, v) ELSE o[i]]
    ELSE Append(o, Entry(k, v))

\* Object.fromEntries(fields)
RECURSIVE FromEntriesInto(_, _, _)
FromEntriesInto(o, fields, i) ==
    IF i > Len(fields) THEN o
    ELSE FromEntriesInto(Put(o, fields[i].k, fields[i].v), fields, i + 1)

FromEntries(fields) == FromEntriesInto(<<>>, fields, 1)

(***************************************************************************)
(* Schema values (strapi-types).                                           *)
(***************************************************************************)
\* Strapi.Attribute, reduced to the fields the plugin reads.
Attribute(key, type, target, components, repeatable, required) ==
    [key |-> key, type |-> type, target |-> target, components |-> components,
     repeatable |-> repeatable, required |-> required]

Scalar(key, type) == Attribute(key, type, "", <<>>, FALSE, FALSE)
Richtext(key) == Attribute(key, "richtext", "", <<>>, FALSE, FALSE)
Media(key) == Attribute(key, "media", "", <<>>, FALSE, FALSE)
Relation(key, model) == Attribute(key, "relation", model, <<>>, FALSE, FALSE)
Component(key, component, repeatable) ==
    Attribute(key, "component", component, <<>>, repeatable, FALSE)
Dynamiczone(key, components) ==
    Attribute(key, "dynamiczone", "", components, FALSE, FALSE)

ScalarKinds == {"string", "integer", "enumeration", "timestamp", "datetime"}

\* Strapi.EntityType, reduced to the fields the plugin reads.
EntityType(uid, apiID, schemaKind, modelType, attributes) ==
    [uid |-> uid, apiID |-> apiID, kind |-> schemaKind, modelType |-> modelType,
     attributes |-> attributes]

\* getTypeName: the node type gatsby-node-helpers derives from the apiID,
\* the prefix followed by the apiID in Pascal case.
GetTypeName(type) ==
    CASE type.apiID = "article" -> "StrapiArticle"
      [] type.apiID = "author" -> "StrapiAuthor"
      [] type.apiID = "user" -> "StrapiUser"
      [] type.apiID = "homepage" -> "StrapiHomepage"
      [] type.apiID = "blog-post" -> "StrapiBlogPost"
      [] type.apiID = "blog_post" -> "StrapiBlogPost"
      [] type.apiID = "seo" -> "StrapiSeo"
      [] type.apiID = "quote" -> "StrapiQuote"
      [] OTHER -> "Strapi"

\* The components of the mapper's registry.
SeoComponent ==
    EntityType("shared.seo", "seo", "collectionType", "component",
               <<Scalar("metaTitle", "string")>>)
QuoteComponent ==
    EntityType("shared.quote", "quote", "collectionType", "component",
               <<Richtext("text"), Scalar("internal", "string")>>)

\* A content type that refers to itself.
AuthorType ==
    EntityType("application::author.author", "author", "collectionType", "contentType",
               <<Scalar("name", "string"), Richtext("bio"), Relation("friend", "author")>>)

RegistryQuiet ==
    /\ contentTypeMap = <<>>
    /\ componentTypeMap = <<>>
    /\ contentTypes = <<>>

NoOutcome == [status |-> "idle", val |-> JUndef]
NoLog == [scalars |-> {}, calls |-> {}]

MapQuiet ==
    /\ mapIn = [type |-> "", entity |-> JUndef]
    /\ mapOut = NoOutcome
    /\ mapLog = NoLog
    /\ rtLog = {}
    /\ sink = {}
    /\ handed = <<>>
    /\ mapped = 0

MediaQuiet ==
    /\ cache = CacheOf([i \in MediaIds |-> NoEntry])
    /\ liveNodes = {}
    /\ touched = {}
    /\ blobCalls = <<>>
    /\ nextNode = FirstNewNode
    /\ mtask = [m \in MediaTasks |-> IdleTask]

\* An option that is not given, and an option given as a list.
NotGiven == [given |-> FALSE, list |-> {}]
Given(list) == [given |-> TRUE, list |-> list]

Hooks == {"sourceNodes", "createSchemaCustomization"}
RunApiIDs == {"article", "author", "user"}
IdleHook == [pc |-> "idle", pending |-> {}, error |-> "", loaded |-> FALSE]

\* options.loginData: undefined, or an identifier and a password.
NoLoginData == [given |-> FALSE, identifier |-> "", password |-> ""]
LoginData(identifier, password) ==
    [given |-> TRUE, identifier |-> identifier, password |-> password]

\* The plugin between runs: default options, an initialized instance that
\* no hook is running on.
RunQuiet ==
    /\ options = [excludedTypes |-> NotGiven, allowedTypes |-> NotGiven,
                  loginData |-> NoLoginData]
    /\ servedTypes = <<>>
    /\ initialized = TRUE
    /\ hook = [h \in Hooks |-> IdleHook]
    /\ schemaReqs = <<>>
    /\ typePc = [t \in RunApiIDs |-> "idle"]
    /\ entityReqs = {}
    /\ records = [t \in RunApiIDs |-> 0]
    /\ runNodes = [t \in RunApiIDs |-> 0]
    /\ panics = 0
    /\ timer = [started |-> 0, ended |-> 0]
    /\ token = ""
    /\ requestConfig = ""
    /\ loginPosts = 0
    /\ loginLog = <<>>
    /\ sent = {}

SchemaQuiet ==
    /\ graphqlTypes = <<>>
    /\ schemaPc = "idle"
    /\ ctIndex = 0
    /\ callStack = <<>>
    /\ typeDefs = <<>>
    /\ reserved = <<>>
    /\ placeholders = {}

FetchTypes == {"article", "homepage"}

FetchQuiet ==
    /\ kind = [t \in FetchTypes |-> "collectionType"]
    /\ server = [t \in FetchTypes |-> <<>>]
    /\ pageSize = DEFAULT_PAGE_SIZE
    /\ fetchPc = [t \in FetchTypes |-> "idle"]
    /\ index = [t \in FetchTypes |-> 0]
    /\ result = [t \in FetchTypes |-> <<>>]
    /\ requests = [t \in FetchTypes |-> <<>>]
    /\ pages = [t \in FetchTypes |-> <<>>]

\* The response body of a request that returned no content.
NoBody == 0

\* pluralize(contentType.apiID)
Pluralize(apiID) ==
    CASE apiID = "article" -> "articles"
      [] apiID = "homepage" -> "homepages"
      [] OTHER -> apiID

\* constructor: this.pageSize = options.pageSize || DEFAULT_PAGE_SIZE
OptionPageSize(opt) == IF opt = 0 THEN DEFAULT_PAGE_SIZE ELSE opt

\* The server's answer to GET <endpoint>?_limit=limit&_start=start
ServerPage(coll, limit, start) ==
    SubSeq(coll, start + 1, Min(start + limit, Len(coll)))

\* The server's answer to GET <apiID> for a single type
ServerSingle(coll) == IF Len(coll) = 0 THEN NoBody ELSE coll[1]

\* The collections a server may hold: N distinct records in some order
Ascending(n) == [i \in 1..n |-> i]
Descending(n) == [i \in 1..n |-> n + 1 - i]
ServerCollections == {Ascending(n) : n \in 0..MaxRecords} \cup {Descending(n) : n \in 0..MaxRecords}

\* `${endpoint}?_limit=${this.pageSize}&_start=${index}`
PageRequest_OffByOne(t, limit, start) ==
    [endpoint |-> Pluralize(t), limit |-> limit, start |-> start + 1]
PageRequest(t, limit, start) == [endpoint |-> Pluralize(t), limit |-> limit, start |-> start]
\* this.fetch(contentType.apiID)
SingleRequest(t) == [endpoint |-> t, limit |-> 0, start |-> 0]

\* if (response.length < this.pageSize) return result;
LastPage_NotStrict(response, limit) == Len(response) <= limit
LastPage_OnlyEmpty(response, limit) == Len(response) = 0
LastPage(response, limit) == Len(response) < limit

InitFetch ==
    /\ kind \in [FetchTypes -> {"collectionType", "singleType"}]
    /\ server \in [FetchTypes -> ServerCollections]
    /\ \A t \in FetchTypes : kind[t] = "singleType" => Len(server[t]) <= 1
    /\ \E opt \in 0..MaxPageSize : pageSize = OptionPageSize(opt)
    /\ fetchPc = [t \in FetchTypes |-> "idle"]
    /\ index = [t \in FetchTypes |-> 0]
    /\ result = [t \in FetchTypes |-> <<>>]
    /\ requests = [t \in FetchTypes |-> <<>>]
    /\ pages = [t \in FetchTypes |-> <<>>]
    /\ MediaQuiet
    /\ RegistryQuiet
    /\ MapQuiet
    /\ SchemaQuiet
    /\ RunQuiet

\* fetchEntities is called: it runs up to its first await, which issues the
\* first request.
FetchEntitiesCall(t) ==
    /\ fetchPc[t] = "idle"
    /\ index' = [index EXCEPT ![t] = 0]
    /\ result' = [result EXCEPT ![t] = <<>>]
    /\ requests' = [requests EXCEPT ![t] =
            Append(@, IF kind[t] = "singleType" THEN SingleRequest(t)
                      ELSE PageRequest(t, pageSize, 0))]
    /\ fetchPc' = [fetchPc EXCEPT ![t] = "waiting"]
    /\ UNCHANGED <<kind, server, pageSize, pages>>
    /\ UNCHANGED notFetch

\* The response of the single-type request arrives.
FetchSingleResponse(t) ==
    /\ fetchPc[t] = "waiting"
    /\ kind[t] = "singleType"
    /\ result' = [result EXCEPT ![t] = <<ServerSingle(server[t])>>]
    /\ fetchPc' = [fetchPc EXCEPT ![t] = "done"]
    /\ UNCHANGED <<kind, server, pageSize, index, requests, pages>>
    /\ UNCHANGED notFetch

\* The response of a page request arrives: one iteration of the while loop,
\* up to the return or to the next await.
FetchPageResponse(t) ==
    /\ fetchPc[t] = "waiting"
    /\ kind[t] = "collectionType"
    /\ LET response == ServerPage(server[t], pageSize, index[t]) IN
        /\ result' = [result EXCEPT ![t] = @ \o response]
        /\ pages' = [pages EXCEPT ![t] = Append(@, Len(response))]
        /\ IF LastPage(response, pageSize)
           THEN /\ fetchPc' = [fetchPc EXCEPT ![t] = "done"]
                /\ UNCHANGED <<index, requests>>
           ELSE /\ index' = [index EXCEPT ![t] = @ + pageSize]
                /\ requests' = [requests EXCEPT ![t] =
                        Append(@, PageRequest(t, pageSize, index[t] + pageSize))]
                /\ UNCHANGED fetchPc
    /\ UNCHANGED <<kind, server, pageSize>>
    /\ UNCHANGED notFetch

\* axios.get rejects: fetch throws a StrapiSourceError, fetchEntities rejects.
FetchFail(t) ==
    /\ fetchPc[t] = "waiting"
    /\ fetchPc' = [fetchPc EXCEPT ![t] = "failed"]
    /\ UNCHANGED <<kind, server, pageSize, index, result, requests, pages>>
    /\ UNCHANGED notFetch

NextFetch ==
    \E t \in FetchTypes :
        \/ FetchEntitiesCall(t)
        \/ FetchSingleResponse(t)
        \/ FetchPageResponse(t)
        \/ FetchFail(t)

SpecFetch == InitFetch /\ [][NextFetch]_vars

(***************************************************************************)
(* Claims about the Entity Fetcher.                                        *)
(***************************************************************************)

\* C1: for a collection type, whatever the page size and the number N of
\* server records, the value fetchEntities returns is exactly the server's
\* collection: every record once, in server order.
C1_PaginationExhaustive ==
    \A t \in FetchTypes :
        (kind[t] = "collectionType" /\ fetchPc[t] = "done") => result[t] = server[t]

\* A collection of five records in descending order was fetched in pages of two.
C1_Witness ==
    \E t \in FetchTypes :
        /\ kind[t] = "collectionType" /\ fetchPc[t] = "done"
        /\ pageSize = 2 /\ server[t] = Descending(5) /\ result[t] = Descending(5)

\* C8: a finished fetch of a collection of N records issued N \div pageSize + 1
\* page requests; every page but the last was full and the last one held the
\* N % pageSize remaining records (none when N is a multiple of pageSize);
\* pageSize 2 with 5 records gives the pages 2, 2, 1.
C8_PageCount ==
    \A t \in FetchTypes :
        (kind[t] = "collectionType" /\ fetchPc[t] = "done") =>
            LET n == Len(server[t]) IN
            /\ Len(requests[t]) = n \div pageSize + 1
            /\ Len(pages[t]) = n \div pageSize + 1
            /\ \A i \in 1..(Len(pages[t]) - 1) : pages[t][i] = pageSize
            /\ pages[t][Len(pages[t])] = n % pageSize
            /\ (pageSize = 2 /\ n = 5) => pages[t] = <<2, 2, 1>>

\* Both cases at once: five records cost the pages 2, 2, 1 and four records
\* cost the pages 2, 2 and one empty page.
C8_Witness ==
    /\ pageSize = 2
    /\ \A t \in FetchTypes : kind[t] = "collectionType" /\ fetchPc[t] = "done"
    /\ Len(server["article"]) = 5 /\ pages["article"] = <<2, 2, 1>>
    /\ Len(server["homepage"]) = 4 /\ pages["homepage"] = <<2, 2, 0>>

\* The page requests of t that were issued and not answered yet.
InFlight(t) ==
    Len(requests[t]) - Len(pages[t]) - (IF fetchPc[t] = "failed" THEN 1 ELSE 0)

\* C18: the page requests of one collection type are sequential: the i-th
\* request has the offset (i - 1) * pageSize and the limit pageSize, a
\* request is issued only when every earlier one was answered, and at most
\* one request of the type is in flight, exactly while fetchEntities awaits;
\* the requests of the other type do not matter.
C18_SequentialPages ==
    \A t \in FetchTypes :
        kind[t] = "collectionType" =>
            /\ \A i \in 1..Len(requests[t]) :
                /\ requests[t][i].start = (i - 1) * pageSize
                /\ requests[t][i].limit = pageSize
            /\ InFlight(t) \in {0, 1}
            /\ InFlight(t) = 1 <=> fetchPc[t] = "waiting"
            /\ \A i \in 1..Len(pages[t]) :
                i < Len(requests[t]) => pages[t][i] = pageSize

\* Both collection types await their second page at the same time.
C18_Witness ==
    \A t \in FetchTypes :
        /\ kind[t] = "collectionType"
        /\ fetchPc[t] = "waiting"
        /\ Len(requests[t]) = 2 /\ Len(pages[t]) = 1
        /\ requests[t][2].start = pageSize

\* C9: for a single type, fetchEntities issues exactly one request, to the
\* type's base endpoint, and returns the response as a one-element sequence,
\* or the empty sequence when the server returned nothing.
C9_SingleTypeFetch ==
    \A t \in FetchTypes :
        (kind[t] = "singleType" /\ fetchPc[t] = "done") =>
            /\ requests[t] = <<SingleRequest(t)>>
            /\ result[t] = IF ServerSingle(server[t]) = NoBody
                           THEN <<>>
                           ELSE <<ServerSingle(server[t])>>

(***************************************************************************)
(* mapMedia.  One action per stretch of code between two awaits.           *)
(***************************************************************************)

\* if (cacheData && media.updated_at === cacheData.updated_at
\*     && this.getNode(cacheData.fileNodeID))
CacheHit_IgnoreTimestamp(cacheData, media, live) ==
    /\ cacheData.present
    /\ cacheData.fileNodeID \in live
CacheHit(cacheData, media, live) ==
    /\ cacheData.present
    /\ media.updated_at = cacheData.updated_at
    /\ cacheData.fileNodeID \in live

\* The cache an earlier run left behind, and the file nodes that survived it.
InitMedia ==
    /\ \E old \in [MediaIds -> {NoEntry} \cup
                    {CacheEntry(n, ts) : n \in {OldFileNode(i) : i \in MediaIds},
                                         ts \in 1..MaxUpdatedAt}] :
        /\ \A i \in MediaIds : old[i].present => old[i].fileNodeID = OldFileNode(i)
        /\ cache = CacheOf(old)
    /\ liveNodes \in SUBSET {OldFileNode(i) : i \in MediaIds}
    /\ touched = {}
    /\ blobCalls = <<>>
    /\ nextNode = FirstNewNode
    /\ mtask = [m \in MediaTasks |-> IdleTask]
    /\ FetchQuiet
    /\ RegistryQuiet
    /\ MapQuiet
    /\ SchemaQuiet
    /\ RunQuiet

\* mapMedia(key, media) is called and runs up to the return of line 329 or to
\* the await of cache.get.
MapMediaCall(m, key, media) ==
    /\ mtask[m].pc = "idle"
    /\ LET started == [mtask[m] EXCEPT !.key = key, !.media = media,
                           !.doneBefore = {x \in MediaTasks : mtask[x].pc = "done"}] IN
        IF ~media.present \/ media.url = ""
        THEN mtask' = [mtask EXCEPT ![m] =
                 [started EXCEPT !.pc = "done", !.ret = AbsentRef(key)]]
        ELSE mtask' = [mtask EXCEPT ![m] = [started EXCEPT !.pc = "cacheGet"]]
    /\ UNCHANGED <<cache, liveNodes, touched, blobCalls, nextNode>>
    /\ UNCHANGED notMedia

\* cache.get resolves: the cached entry is tested; a hit touches the node and
\* returns it, a miss calls createRemoteFileNode and awaits it.
CacheGetResolve(m) ==
    /\ mtask[m].pc = "cacheGet"
    /\ LET t == mtask[m]
           cacheData == cache[CacheKey(t.key, t.media)]
           read == [t EXCEPT !.cacheData = cacheData,
                             !.nodeResolved = cacheData.fileNodeID \in liveNodes] IN
        IF CacheHit(cacheData, t.media, liveNodes)
        THEN /\ touched' = touched \cup {cacheData.fileNodeID}
             /\ mtask' = [mtask EXCEPT ![m] =
                    [read EXCEPT !.pc = "done", !.hit = TRUE,
                                 !.ret = NodeRef(t.key, cacheData.fileNodeID)]]
             /\ UNCHANGED blobCalls
        ELSE /\ blobCalls' = Append(blobCalls, [task |-> m, url |-> FullUrl(t.media.url)])
             /\ mtask' = [mtask EXCEPT ![m] = [read EXCEPT !.pc = "blob", !.blob = @ + 1]]
             /\ UNCHANGED touched
    /\ UNCHANGED <<cache, liveNodes, nextNode>>
    /\ UNCHANGED notMedia

\* cache.get rejects: the await is outside the try block, mapMedia rejects.
CacheGetReject(m) ==
    /\ mtask[m].pc = "cacheGet"
    /\ mtask' = [mtask EXCEPT ![m] = [@ EXCEPT !.pc = "done", !.raised = TRUE]]
    /\ UNCHANGED <<cache, liveNodes, touched, blobCalls, nextNode>>
    /\ UNCHANGED notMedia

\* createRemoteFileNode resolves with a file node: cache.set is called and
\* awaited.
BlobResolveNode(m) ==
    /\ mtask[m].pc = "blob"
    /\ liveNodes' = liveNodes \cup {nextNode}
    /\ nextNode' = nextNode + 1
    /\ mtask' = [mtask EXCEPT ![m] = [@ EXCEPT !.pc = "cacheSet", !.fileNode = nextNode]]
    /\ UNCHANGED <<cache, touched, blobCalls>>
    /\ UNCHANGED notMedia

\* createRemoteFileNode resolves with no file node: the raw descriptor is
\* returned under the plain key.
BlobResolveEmpty(m) ==
    /\ mtask[m].pc = "blob"
    /\ mtask' = [mtask EXCEPT ![m] =
            [@ EXCEPT !.pc = "done", !.ret = RawMedia(mtask[m].key, mtask[m].media)]]
    /\ UNCHANGED <<cache, liveNodes, touched, blobCalls, nextNode>>
    /\ UNCHANGED notMedia

\* createRemoteFileNode rejects: the catch block logs, the raw descriptor is
\* returned.
BlobReject(m) ==
    /\ mtask[m].pc = "blob"
    /\ mtask' = [mtask EXCEPT ![m] =
            [@ EXCEPT !.pc = "done", !.logged = TRUE, !.ret = RawMedia(mtask[m].key, mtask[m].media)]]
    /\ UNCHANGED <<cache, liveNodes, touched, blobCalls, nextNode>>
    /\ UNCHANGED notMedia

\* cache.set resolves: the entry is stored and the new node is returned.
CacheSetResolve(m) ==
    /\ mtask[m].pc = "cacheSet"
    /\ LET t == mtask[m] IN
        /\ cache' = [cache EXCEPT ![CacheKey(t.key, t.media)] =
                                    WrittenEntry(t.fileNode, t.media)]
        /\ mtask' = [mtask EXCEPT ![m] =
                [t EXCEPT !.pc = "done", !.wrote = TRUE, !.ret = NodeRef(t.key, t.fileNode)]]
    /\ UNCHANGED <<liveNodes, touched, blobCalls, nextNode>>
    /\ UNCHANGED notMedia

\* cache.set rejects: the catch block logs, the raw descriptor is returned.
CacheSetReject(m) ==
    /\ mtask[m].pc = "cacheSet"
    /\ mtask' = [mtask EXCEPT ![m] =
            [@ EXCEPT !.pc = "done", !.logged = TRUE, !.ret = RawMedia(mtask[m].key, mtask[m].media)]]
    /\ UNCHANGED <<cache, liveNodes, touched, blobCalls, nextNode>>
    /\ UNCHANGED notMedia

NextMedia ==
    \E m \in MediaTasks :
        \/ \E key \in MediaKeys, media \in MediaInputs : MapMediaCall(m, key, media)
        \/ CacheGetResolve(m)
        \/ CacheGetReject(m)
        \/ BlobResolveNode(m)
        \/ BlobResolveEmpty(m)
        \/ BlobReject(m)
        \/ CacheSetResolve(m)
        \/ CacheSetReject(m)

SpecMedia == InitMedia /\ [][NextMedia]_vars
(***************************************************************************)
(* Claims about the Media Cache.                                           *)
(***************************************************************************)

\* The mapMedia call m has read the cache.
HasRead(m) == mtask[m].pc \in {"blob", "cacheSet", "done"} /\ ~mtask[m].raised
                /\ mtask[m].media.present /\ mtask[m].media.url # ""

\* The createRemoteFileNode calls made by the mapMedia call m.
BlobCallsOf(m) == Cardinality({i \in 1..Len(blobCalls) : blobCalls[i].task = m})

\* The call m2 was made after the call m1 had returned, for the same asset
\* with the same updated_at.
LaterSame(m1, m2) ==
    /\ m1 \in mtask[m2].doneBefore
    /\ mtask[m2].media.present /\ mtask[m2].media.url # ""
    /\ mtask[m2].media.id = mtask[m1].media.id
    /\ mtask[m2].media.updated_at = mtask[m1].media.updated_at

\* A call that found a cache entry with the descriptor's updated_at and a
\* resolving file node did not invoke the Blob Store, touched the node and
\* returned the cached handle.
HitPath(m) ==
    LET t == mtask[m] IN
    (HasRead(m) /\ t.cacheData.present /\ t.cacheData.updated_at = t.media.updated_at
        /\ t.nodeResolved) =>
            /\ BlobCallsOf(m) = 0 /\ t.blob = 0
            /\ t.pc = "done"
            /\ t.ret = NodeRef(t.key, t.cacheData.fileNodeID)
            /\ t.cacheData.fileNodeID \in touched

\* A call that found a cache entry with another updated_at invoked the Blob
\* Store exactly once.
StalePath(m) ==
    LET t == mtask[m] IN
    (HasRead(m) /\ t.cacheData.present /\ t.cacheData.updated_at # t.media.updated_at) =>
        BlobCallsOf(m) = 1 /\ t.blob = 1

\* C2 (as claimed): a matching, resolving cache entry is reused without the
\* Blob Store; a differing updated_at invokes the Blob Store exactly once for
\* that mapping, and every later mapping of the asset with the same new
\* updated_at is a cache hit again.
C2_Original ==
    \A m \in MediaTasks :
        /\ HitPath(m)
        /\ StalePath(m)
        /\ \A m2 \in MediaTasks :
            (/\ mtask[m].pc = "done" /\ HasRead(m)
             /\ mtask[m].cacheData.present
             /\ mtask[m].cacheData.updated_at # mtask[m].media.updated_at
             /\ LaterSame(m, m2) /\ mtask[m2].pc = "done" /\ ~mtask[m2].raised)
                => mtask[m2].hit /\ BlobCallsOf(m2) = 0

\* C2 (amended): a matching, resolving cache entry is reused without the Blob
\* Store; a differing updated_at invokes the Blob Store exactly once for that
\* mapping, and when that materialization yields a file node and the cache
\* write completes, the cache holds the new handle with the new updated_at,
\* so a later mapping of the asset with the same updated_at that finds this
\* entry is a cache hit returning the new handle.
C2_CacheHitNoBlob ==
    \A m \in MediaTasks :
        /\ HitPath(m)
        /\ StalePath(m)
        /\ (mtask[m].pc = "done" /\ mtask[m].wrote) =>
            /\ mtask[m].ret = NodeRef(mtask[m].key, mtask[m].fileNode)
            /\ mtask[m].fileNode \in liveNodes
            /\ \A m2 \in MediaTasks :
                (/\ LaterSame(m, m2) /\ HasRead(m2)
                 /\ mtask[m2].cacheData =
                        CacheEntry(mtask[m].fileNode, mtask[m].media.updated_at))
                    => /\ mtask[m2].hit /\ BlobCallsOf(m2) = 0
                       /\ mtask[m2].ret = NodeRef(mtask[m2].key, mtask[m].fileNode)

\* The first call found a stale entry, materialized the asset once and wrote
\* the cache; the second call, made afterwards through another field, reused
\* the new handle.
C2_Witness ==
    /\ mtask["m1"].pc = "done" /\ mtask["m1"].wrote
    /\ mtask["m1"].cacheData.present
    /\ mtask["m1"].cacheData.updated_at # mtask["m1"].media.updated_at
    /\ BlobCallsOf("m1") = 1
    /\ LaterSame("m1", "m2") /\ mtask["m2"].pc = "done" /\ mtask["m2"].hit
    /\ mtask["m2"].ret.node = mtask["m1"].fileNode
    /\ Len(blobCalls) = 1

\* C10: mapMedia never raises, whichever collaborator fails; a missing
\* descriptor or url yields an absent reference without touching the cache or
\* the Blob Store, and a failed or empty materialization yields the raw media
\* descriptor under the plain key.
C10_MapMediaNeverRaises ==
    \A m \in MediaTasks :
        LET t == mtask[m] IN
        t.pc = "done" =>
            /\ ~t.raised
            /\ (~t.media.present \/ t.media.url = "") =>
                    /\ t.ret = AbsentRef(t.key)
                    /\ BlobCallsOf(m) = 0 /\ t.cacheData = NoEntry /\ ~t.wrote
            /\ (t.blob = 1 /\ ~t.wrote) => t.ret = RawMedia(t.key, t.media)

\* The calls m1 and m2 overlapped: each was made before the other returned.
Overlapping(m1, m2) ==
    /\ m1 # m2
    /\ mtask[m1].pc # "idle" /\ mtask[m2].pc # "idle"
    /\ m1 \notin mtask[m2].doneBefore
    /\ m2 \notin mtask[m1].doneBefore

\* C17: two overlapping mappings of the same asset (same id, same
\* updated_at) materialize it through the Blob Store at most once between
\* them, under every interleaving of their steps.
C17_SingleMaterialization ==
    \A m1, m2 \in MediaTasks :
        (/\ Overlapping(m1, m2)
         /\ HasRead(m1) /\ HasRead(m2)
         /\ mtask[m1].media.id = mtask[m2].media.id
         /\ mtask[m1].media.updated_at = mtask[m2].media.updated_at)
            => BlobCallsOf(m1) + BlobCallsOf(m2) <= 1

C20_CacheWrittenOnSuccess ==
    [][/\ \A k \in CacheKeys : cache[k].present => cache'[k].present
       /\ cache' # cache =>
            \E m \in MediaTasks :
                /\ mtask[m].pc = "cacheSet"
                /\ BlobCallsOf(m) = 1
                /\ mtask[m].fileNode \in liveNodes
                /\ mtask'[m].pc = "done" /\ mtask'[m].wrote
                /\ \E k \in CacheKeys :
                    cache' = [cache EXCEPT ![k] =
                                CacheEntry(mtask[m].fileNode, mtask[m].media.updated_at)]
       /\ \A m \in MediaTasks :
            (mtask'[m].wrote /\ ~mtask[m].wrote) => cache' # cache
      ]_vars

\* One mapping materialized its asset and the cache holds the new entry; the
\* other mapping, of another asset that had no entry, failed in the Blob
\* Store and the asset still has no entry.
C20_Witness ==
    /\ mtask["m1"].pc = "done" /\ mtask["m1"].wrote
    /\ cache[CacheKey(mtask["m1"].key, mtask["m1"].media)] =
            CacheEntry(mtask["m1"].fileNode, mtask["m1"].media.updated_at)
    /\ mtask["m2"].pc = "done" /\ mtask["m2"].logged /\ ~mtask["m2"].wrote
    /\ BlobCallsOf("m2") = 1
    /\ mtask["m2"].media.id # mtask["m1"].media.id
    /\ ~mtask["m2"].cacheData.present
    /\ ~cache[CacheKey(mtask["m2"].key, mtask["m2"].media)].present

(***************************************************************************)
(* The Content Mapper.  mapEntityType and the attribute mappers are        *)
(* operators that thread the state their side effects change:              *)
(*   st.sink, st.handed, st.rtLog, st.scalars  (createNode and the logs)   *)
(*   st.rec  (the number of the entity being mapped)                       *)
(*   st.cache, st.liveNodes, st.touched, st.blobCalls, st.nextNode         *)
(* The attribute mappers of one record are started in schema order; a      *)
(* rejected one does not stop the others (Promise.all).                    *)
(***************************************************************************)

\* hashString: the md5 digest of the text, taken to be free of collisions.
HashString_Constant(data) == "md5()"
HashString(data) == "md5(" \o data \o ")"

\* this.args.createNodeId(contentDigest)
CreateNodeId(contentDigest) == "node-" \o contentDigest

\* this.createNode(node): a node with the same id replaces the older one.
CreateNode(nodes, node) == {n \in nodes : n.id # node.id} \cup {node}

\* The createNode calls after one more call.
Handed(calls, node) == Append(calls, [id |-> node.id, type |-> node.type])

\* A step of a path into the mapped data.
PKey(k) == [k |-> k]
PIdx(i) == [i |-> i]

\* The [key, value] pair an attribute mapper returns, or its rejection.
Field(err, k, v, st) == [err |-> err, k |-> k, v |-> v, st |-> st]
Rejected(st) == [err |-> TRUE, k |-> "", v |-> JUndef, st |-> st]

\* The outcomes of the collaborators of mapMedia during one mapping.
MediaOracles == {"ok", "getReject", "blobEmpty", "blobReject", "setReject"}

\* data as Strapi.Media
AsMedia(data) ==
    IF Falsy(data) THEN NoMedia
    ELSE [present |-> TRUE,
          id |-> IF Get(data, "id").t = "number" THEN Get(data, "id").n ELSE 0,
          url |-> IF Get(data, "url").t = "string" THEN Get(data, "url").s ELSE "",
          updated_at |-> IF Get(data, "updated_at").t = "number"
                         THEN Get(data, "updated_at").n ELSE 0]

\* mapRichtext
MapRichtext(attribute, key, data, path, st) ==
    IF data.t # "string"
    THEN Field(FALSE, key \o "___NODE", JUndef, st)
    ELSE LET contentDigest == HashString(data.s)
             id == CreateNodeId(contentDigest)
             markdownNode == [id |-> id, type |-> "StrapiMarkdownString", content |-> data]
         IN Field(FALSE, key \o "___NODE", JStr(id),
                  [st EXCEPT !.sink = CreateNode(@, markdownNode),
                             !.handed = Handed(@, markdownNode),
                             !.rtLog = @ \cup {[rec |-> st.rec, path |-> path, key |-> key,
                                                text |-> data.s, ref |-> id]}])

\* mapMedia, with the collaborators answering as the oracle says.
MapMedia(key, data, st, oracle) ==
    LET media == AsMedia(data) IN
    IF ~media.present \/ media.url = ""
    THEN Field(FALSE, key \o "___NODE", JUndef, st)
    ELSE IF oracle = "getReject" THEN Rejected(st)
    ELSE LET cacheData == st.cache[CacheKey(key, media)] IN
    IF CacheHit(cacheData, media, st.liveNodes)
    THEN Field(FALSE, key \o "___NODE", JNum(cacheData.fileNodeID),
               [st EXCEPT !.touched = @ \cup {cacheData.fileNodeID}])
    ELSE LET called == [st EXCEPT !.blobCalls =
                            Append(@, [task |-> "map", url |-> FullUrl(media.url)])] IN
    IF oracle \in {"blobEmpty", "blobReject"}
    THEN Field(FALSE, key, data, called)
    ELSE LET made == [called EXCEPT !.liveNodes = @ \cup {st.nextNode},
                                    !.nextNode = @ + 1] IN
    IF oracle = "setReject"
    THEN Field(FALSE, key, data, made)
    ELSE Field(FALSE, key \o "___NODE", JNum(st.nextNode),
               [made EXCEPT !.cache[CacheKey(key, media)] =
                                WrittenEntry(st.nextNode, media)])

RECURSIVE MapEntityType(_, _, _, _, _)
RECURSIVE MapFields(_, _, _, _, _, _)
RECURSIVE MapEach(_, _, _, _, _, _)
RECURSIVE MapZoneItems(_, _, _, _, _)

\* return [key, await this.mapEntityType(type, data)]
FieldOf(key, r) == Field(r.err, key, r.val, r.st)

\* return [key, await Promise.all(items.map(...))]
FieldOfAll(key, r) == Field(r.err, key, JArr(r.vals), r.st)

\* mapRelation
MapRelation_RegistryFirst(attribute, key, data, path, st, oracle) ==
    IF attribute.target \notin DOMAIN contentTypeMap THEN Rejected(st)
    ELSE IF Nullish(data) THEN Field(FALSE, key, data, st)
    ELSE IF data.t = "number" THEN Field(FALSE, key, data, st)
    ELSE IF ~TypeofObject(data) THEN Rejected(st)
    ELSE FieldOf(key, MapEntityType(contentTypeMap[attribute.target], data,
                                    Append(path, PKey(key)), st, oracle))
MapRelation_FollowSchema(attribute, key, data, path, st, oracle) ==
    IF Nullish(data) /\ (Len(path) >= 1 \/ attribute.target \notin DOMAIN contentTypeMap)
    THEN Field(FALSE, key, data, st)
    ELSE IF Nullish(data)
    THEN FieldOf(key, MapEntityType(contentTypeMap[attribute.target], JObj(<<>>),
                                    Append(path, PKey(key)), st, oracle))
    ELSE IF data.t = "number" THEN Field(FALSE, key, data, st)
    ELSE IF ~TypeofObject(data) THEN Rejected(st)
    ELSE IF attribute.target \notin DOMAIN contentTypeMap THEN Rejected(st)
    ELSE FieldOf(key, MapEntityType(contentTypeMap[attribute.target], data,
                                    Append(path, PKey(key)), st, oracle))
MapRelation(attribute, key, data, path, st, oracle) ==
    IF Nullish(data) THEN Field(FALSE, key, data, st)
    ELSE IF data.t = "number" THEN Field(FALSE, key, data, st)
    ELSE IF ~TypeofObject(data) THEN Rejected(st)
    ELSE IF attribute.target \notin DOMAIN contentTypeMap THEN Rejected(st)
    ELSE FieldOf(key, MapEntityType(contentTypeMap[attribute.target], data,
                                    Append(path, PKey(key)), st, oracle))

\* if (typeof data !== 'object') throw, in the branch of a component that is
\* not repeatable
SingleShapeOk(data) == TypeofObject(data)

\* mapComponent
MapComponent(attribute, key, data, path, st, oracle) ==
    IF Nullish(data) THEN Field(FALSE, key, data, st)
    ELSE IF attribute.target \notin DOMAIN componentTypeMap THEN Rejected(st)
    ELSE IF attribute.repeatable
         THEN IF data.t # "array" THEN Rejected(st)
              ELSE FieldOfAll(key, MapEach(componentTypeMap[attribute.target], data.a, 1,
                                           Append(path, PKey(key)), st, oracle))
         ELSE IF ~SingleShapeOk(data) THEN Rejected(st)
              ELSE FieldOf(key, MapEntityType(componentTypeMap[attribute.target], data,
                                              Append(path, PKey(key)), st, oracle))

\* mapDynamicZone
MapDynamicZone(attribute, key, items, path, st, oracle) ==
    IF Nullish(items) THEN Field(FALSE, key, items, st)
    ELSE IF items.t # "array" THEN Rejected(st)
    ELSE FieldOfAll(key, MapZoneItems(items.a, 1, Append(path, PKey(key)), st, oracle))

\* mapAttribute
MapAttribute(attribute, key, data, path, st, oracle) ==
    CASE attribute.type = "richtext" -> MapRichtext(attribute, key, data, path, st)
      [] attribute.type = "media" -> MapMedia(key, data, st, oracle.media)
      [] attribute.type = "relation" -> MapRelation(attribute, key, data, path, st, oracle)
      [] attribute.type = "component" -> MapComponent(attribute, key, data, path, st, oracle)
      [] attribute.type = "dynamiczone" -> MapDynamicZone(attribute, key, data, path, st, oracle)
      [] OTHER ->
            Field(FALSE, key, data,
                  IF attribute.type \in ScalarKinds
                  THEN [st EXCEPT !.scalars = @ \cup
                            {[path |-> path, key |-> key, value |-> data]}]
                  ELSE st)

\* Promise.all over the attributes: the pairs in schema order, rejected when
\* one of them is.
JoinFields(f, rest) ==
    [err |-> f.err \/ rest.err,
     fields |-> <<Entry(f.k, f.v)>> \o rest.fields,
     st |-> rest.st]

\* The attributes after the i-th, started on the state the i-th left.
RestFields(f, attributes, i, data, path, oracle) ==
    JoinFields(f, MapFields(attributes, i + 1, data, path, f.st, oracle))

\* attributes.map(async ([key, attribute]) => this.mapAttribute(attribute, key, data[key]))
MapFields(attributes, i, data, path, st, oracle) ==
    IF i > Len(attributes) THEN [err |-> FALSE, fields |-> <<>>, st |-> st]
    ELSE RestFields(MapAttribute(attributes[i], attributes[i].key,
                                 Get(data, attributes[i].key), path, st, oracle),
                    attributes, i, data, path, oracle)

\* The orders in which the attribute mappings of one mapEntityType call may
\* complete: the n-th to complete is the attribute CompletionOrder(len, ord)[n].
CompletionOrders == {"schema", "reverse"}
CompletionOrder(len, ord) ==
    [n \in 1..len |-> IF ord = "reverse" THEN len + 1 - n ELSE n]

\* Promise.all: as each promise fulfils, its value is stored at the index of
\* the promise; the array of values is the result when all have fulfilled.
RECURSIVE Settle(_, _, _, _)
Settle(values, fields, order, n) ==
    IF n > Len(order) THEN values
    ELSE Settle([values EXCEPT ![order[n]] = fields[order[n]]], fields, order, n + 1)

PromiseAll_CompletionOrder(fields, order) == [n \in 1..Len(fields) |-> fields[order[n]]]
PromiseAll(fields, order) ==
    Settle([i \in 1..Len(fields) |-> Entry("", JUndef)], fields, order, 1)

\* return Object.fromEntries(mappedFields)
EntityOf(r, oracle) ==
    [err |-> r.err,
     val |-> IF r.err THEN JUndef
             ELSE JObj(FromEntries(PromiseAll(r.fields,
                            CompletionOrder(Len(r.fields), oracle.order)))),
     st |-> r.st]

\* The mapper's state after a mapEntityType call on the value at the path.
Called(st, path) == [st EXCEPT !.calls = @ \cup {path}]

\* mapEntityType: reading data[key] of a nullish data throws in every
\* attribute's callback, before any attribute mapper runs.
MapEntityType(entityType, data, path, st, oracle) ==
    IF Nullish(data) /\ Len(entityType.attributes) > 0
    THEN [err |-> TRUE, val |-> JUndef, st |-> Called(st, path)]
    ELSE EntityOf(MapFields(entityType.attributes, 1, data, path, Called(st, path), oracle),
                  oracle)

\* Promise.all over the items: the values in order, rejected when one is.
JoinItems(one, rest) ==
    [err |-> one.err \/ rest.err,
     vals |-> <<one.val>> \o rest.vals,
     st |-> rest.st]

\* The items after the i-th of a repeatable component.
RestEach(one, type, items, i, path, oracle) ==
    JoinItems(one, MapEach(type, items, i + 1, path, one.st, oracle))

\* data.map(d => this.mapEntityType(type, d))
MapEach(type, items, i, path, st, oracle) ==
    IF i > Len(items) THEN [err |-> FALSE, vals |-> <<>>, st |-> st]
    ELSE RestEach(MapEntityType(type, items[i], Append(path, PIdx(i)), st, oracle),
                  type, items, i, path, oracle)

\* itemData.internal = { type: this.getTypeName(type) };
\* itemData._type = this.getTypeName(type);
Annotate_None(itemData, type) == itemData
Annotate(itemData, type) ==
    JObj(Put(Put(itemData.o, "internal",
                 JObj(<<Entry("type", JStr(GetTypeName(type)))>>)),
             "_type", JStr(GetTypeName(type))))

\* const type = this.componentTypeMap.get(typeName); if (!type) throw
ZoneTypeKnown(typeName) == typeName \in DOMAIN componentTypeMap

\* const itemData = await this.mapEntityType(type, item), annotated
AnnotatedItem_AsNode(r, type) ==
    [err |-> r.err,
     val |-> IF r.err THEN JUndef ELSE Annotate(r.val, type),
     st |-> IF r.err THEN r.st
            ELSE [r.st EXCEPT !.handed =
                        Handed(@, [id |-> "item", type |-> GetTypeName(type)])]]
AnnotatedItem(r, type) ==
    [err |-> r.err,
     val |-> IF r.err THEN JUndef ELSE Annotate(r.val, type),
     st |-> r.st]

\* The callback of items.map in mapDynamicZone, for one item.
MapZoneItem(item, typeName, i, path, st, oracle) ==
    IF Nullish(item) THEN [err |-> TRUE, val |-> JUndef, st |-> st]
    ELSE IF typeName.t # "string" THEN [err |-> TRUE, val |-> JUndef, st |-> st]
    ELSE IF ~ZoneTypeKnown(typeName.s) THEN [err |-> TRUE, val |-> JUndef, st |-> st]
    ELSE AnnotatedItem(MapEntityType(componentTypeMap[typeName.s], item,
                                     Append(path, PIdx(i)), st, oracle),
                       componentTypeMap[typeName.s])

\* The items after the i-th of a dynamic zone.
RestZoneItems(one, items, i, path, oracle) ==
    JoinItems(one, MapZoneItems(items, i + 1, path, one.st, oracle))

\* items.map(async (item) => ...) in mapDynamicZone, for every item in turn.
MapZoneItems(items, i, path, st, oracle) ==
    IF i > Len(items) THEN [err |-> FALSE, vals |-> <<>>, st |-> st]
    ELSE RestZoneItems(MapZoneItem(items[i], Get(items[i], "__component"), i, path, st,
                                   oracle),
                       items, i, path, oracle)

(***************************************************************************)
(* The schemas and raw entities the mapper is run on.                      *)
(***************************************************************************)
MaxMappings == 2

\* The attributes the content type article may have.
AttrChoices ==
    {Scalar("title", "string"), Scalar("id", "integer"), Scalar("status", "enumeration"),
     Scalar("created", "timestamp"), Scalar("published", "datetime"),
     Scalar("intro___NODE", "string"),
     Richtext("intro"), Richtext("summary"), Media("cover"),
     Relation("author", "author"), Relation("author", "ghost"),
     Component("seo", "shared.seo", FALSE), Component("seo", "shared.seo", TRUE),
     Component("seo", "shared.ghost", FALSE),
     Dynamiczone("body", <<"shared.seo", "shared.quote">>)}

\* The attributes a second attribute of article is drawn from.
SecondChoices ==
    {Scalar("title", "string"), Scalar("intro___NODE", "string"), Richtext("summary")}

\* schema.attributes of article: one attribute, or two with distinct keys.
AttrLists ==
    {<<>>} \cup {<<a>> : a \in AttrChoices}
           \cup {p \in {<<a, b>> : a \in AttrChoices, b \in SecondChoices} :
                        p[1].key # p[2].key}
           \cup {<<b, a>> : a \in {Richtext("intro"), Media("cover")},
                            b \in {Scalar("intro___NODE", "string")}}

ArticleType(attributes) ==
    EntityType("application::article.article", "article", "collectionType", "contentType",
               attributes)

MediaObject(url) ==
    JObj(<<Entry("id", JNum(1)), Entry("updated_at", JNum(1))>>
         \o (IF url = "" THEN <<>> ELSE <<Entry("url", JStr(url))>>))

AuthorBob == JObj(<<Entry("name", JStr("bob")), Entry("bio", JStr("# Hi"))>>)
AuthorAl ==
    JObj(<<Entry("name", JStr("al")), Entry("bio", JStr("bye")), Entry("friend", AuthorBob)>>)

SeoObject == JObj(<<Entry("metaTitle", JStr("t"))>>)
SeoItem == JObj(<<Entry("__component", JStr("shared.seo")), Entry("metaTitle", JStr("t"))>>)
QuoteItem ==
    JObj(<<Entry("__component", JStr("shared.quote")), Entry("text", JStr("# Hi")),
           Entry("internal", JStr("mine"))>>)
UntaggedItem == JObj(<<Entry("metaTitle", JStr("t"))>>)
UnknownItem == JObj(<<Entry("__component", JStr("shared.ghost"))>>)

\* The raw values the server may send for an attribute.
ValuesFor(attribute) ==
    CASE attribute.type = "richtext" ->
            {JUndef, JNull, JNum(1), JStr(""), JStr("# Hi"), JStr("bye")}
      [] attribute.type = "media" ->
            {JUndef, JNull, MediaObject(UrlOf(1)), MediaObject(""), JArr(<<MediaObject(UrlOf(1))>>)}
      [] attribute.type = "relation" ->
            {JUndef, JNull, JNum(7), JStr("x"), AuthorBob, AuthorAl, JArr(<<AuthorBob>>)}
      [] attribute.type = "component" ->
            {JUndef, JNull, JNum(1), SeoObject, JArr(<<>>), JArr(<<SeoObject>>),
             JArr(<<SeoObject, JNull>>)}
      [] attribute.type = "dynamiczone" ->
            {JUndef, JNull, JStr("x"), JArr(<<>>), JArr(<<SeoItem>>),
             JArr(<<SeoItem, QuoteItem>>), JArr(<<UntaggedItem>>), JArr(<<UnknownItem>>),
             JArr(<<SeoItem, UnknownItem>>), JArr(<<JNum(1)>>)}
      [] OTHER -> {JUndef, JNull, JNum(1), JStr("a")}

\* The entries of the raw entities of a schema; an undefined value is an
\* absent key.
RECURSIVE EntriesFor(_, _)
EntriesFor(attributes, i) ==
    IF i > Len(attributes) THEN {<<>>}
    ELSE {(IF v = JUndef THEN <<>> ELSE <<Entry(attributes[i].key, v)>>) \o rest :
            v \in ValuesFor(attributes[i]), rest \in EntriesFor(attributes, i + 1)}

\* The fields every raw record has: its numeric id, and a field no schema
\* lists; when the schema lists id, the id is among the attribute entries.
RecordId == 7
BaseEntries(attributes) ==
    <<Entry("created_by", JStr("admin"))>> \o
    (IF \E i \in 1..Len(attributes) : attributes[i].key = "id"
     THEN <<>> ELSE <<Entry("id", JNum(RecordId))>>)

\* The raw entities of a schema, and the body of an empty response.
EntitiesFor(attributes) ==
    {JObj(BaseEntries(attributes) \o e) : e \in EntriesFor(attributes, 1)} \cup {JNull}

\* `${contentType.apiID}_${node.strapiId}`, where nodeFactory copies the id
\* of the mapped data to strapiId
IdText(v) ==
    CASE v.t = "number" -> ToString(v.n)
      [] v.t = "string" -> v.s
      [] v.t = "null" -> "null"
      [] v.t = "undefined" -> "undefined"
      [] OTHER -> "[object Object]"
EntityNodeId(apiID, data) == apiID \o "_" \o IdText(Get(data, "id"))

InitMap ==
    /\ \E attributes \in AttrLists :
            contentTypeMap = [id \in {"article", "author"} |->
                                IF id = "article" THEN ArticleType(attributes) ELSE AuthorType]
    /\ componentTypeMap = [uid \in {"shared.seo", "shared.quote"} |->
                                IF uid = "shared.seo" THEN SeoComponent ELSE QuoteComponent]
    /\ contentTypes = <<contentTypeMap["article"]>>
    /\ mapIn = [type |-> "", entity |-> JUndef]
    /\ mapOut = NoOutcome
    /\ mapLog = NoLog
    /\ rtLog = {}
    /\ sink = {}
    /\ handed = <<>>
    /\ mapped = 0
    /\ cache = CacheOf([i \in MediaIds |-> NoEntry])
    /\ liveNodes = {}
    /\ touched = {}
    /\ blobCalls = <<>>
    /\ nextNode = FirstNewNode
    /\ mtask = [m \in MediaTasks |-> IdleTask]
    /\ FetchQuiet
    /\ SchemaQuiet
    /\ RunQuiet

\* The state the mapper's side effects work on.
MapperState ==
    [sink |-> sink, handed |-> handed, rtLog |-> rtLog, scalars |-> {}, calls |-> {},
     rec |-> mapped + 1,
     cache |-> cache, liveNodes |-> liveNodes, touched |-> touched,
     blobCalls |-> blobCalls, nextNode |-> nextNode]

\* nodeFactory(data)
EntityNode(contentType, data) ==
    [id |-> EntityNodeId(contentType.apiID, data), type |-> GetTypeName(contentType),
     content |-> data]

\* The callback of entities.map in sourceNodes, for one entity: the entity is
\* mapped and the mapped data handed to createNode, or the mapping error is
\* rethrown as a StrapiSourceError naming entity.id.
MapEntity(contentType, entity, oracle) ==
    /\ mapped < MaxMappings
    /\ LET r == MapEntityType(contentType, entity, <<>>, MapperState, oracle) IN
        /\ mapIn' = [type |-> contentType.apiID, entity |-> entity]
        /\ mapLog' = [scalars |-> r.st.scalars, calls |-> r.st.calls]
        /\ rtLog' = r.st.rtLog
        /\ cache' = r.st.cache
        /\ liveNodes' = r.st.liveNodes
        /\ touched' = r.st.touched
        /\ blobCalls' = r.st.blobCalls
        /\ nextNode' = r.st.nextNode
        /\ IF r.err
           THEN /\ mapOut' = [status |-> IF Nullish(entity) THEN "TypeError"
                                          ELSE "StrapiSourceError",
                              val |-> JUndef]
                /\ sink' = r.st.sink
                /\ handed' = r.st.handed
           ELSE /\ mapOut' = [status |-> "ok", val |-> r.val]
                /\ sink' = CreateNode(r.st.sink, EntityNode(contentType, r.val))
                /\ handed' = Handed(r.st.handed, EntityNode(contentType, r.val))
    /\ mapped' = mapped + 1
    /\ UNCHANGED <<mtask, registryVars, fetchVars, schemaVars, runVars>>

\* What the environment decides during one mapping: the answers of the
\* collaborators of mapMedia, when a media attribute is mapped, and the order
\* in which the attribute mappings complete, when there is more than one.
OraclesFor(attributes) ==
    {[media |-> m, order |-> o] :
        m \in (IF \E i \in 1..Len(attributes) : attributes[i].type = "media"
               THEN MediaOracles ELSE {"ok"}),
        o \in (IF Len(attributes) > 1 THEN CompletionOrders ELSE {"schema"})}

NextMap ==
    \E i \in 1..Len(contentTypes) :
        \E entity \in EntitiesFor(contentTypes[i].attributes),
           oracle \in OraclesFor(contentTypes[i].attributes) :
            MapEntity(contentTypes[i], entity, oracle)

SpecMap == InitMap /\ [][NextMap]_vars

(***************************************************************************)
(* Claims about the Content Mapper.                                        *)
(***************************************************************************)

\* The value found in the mapped data by following a path of keys and
\* indices; undefined when the path leads nowhere.
RECURSIVE Lookup(_, _)
Lookup(val, path) ==
    IF path = <<>> THEN val
    ELSE LET step == Head(path) IN
         IF "k" \in DOMAIN step
         THEN Lookup(Get(val, step.k), Tail(path))
         ELSE IF val.t = "array" /\ step.i \in 1..Len(val.a)
              THEN Lookup(val.a[step.i], Tail(path))
              ELSE JUndef

\* The mapped data has an entry at the end of the path.
HasEntry(val, path, key) ==
    LET owner == Lookup(val, path) IN owner.t = "object" /\ HasKey(owner.o, key)

\* The content type of the latest mapping, and its attributes of one type.
MappedType == contentTypeMap[mapIn.type]
MappedAttrs(type) ==
    {MappedType.attributes[i] : i \in {j \in 1..Len(MappedType.attributes) :
                                            MappedType.attributes[j].type = type}}
HasMapped == mapOut.status # "idle" /\ ~Nullish(mapIn.entity)

\* A dynamic-zone item whose discriminator is missing or does not resolve.
BadItem(item) ==
    \/ Nullish(item)
    \/ Get(item, "__component").t # "string"
    \/ Get(item, "__component").s \notin DOMAIN componentTypeMap

\* The component a dynamic-zone item resolves to.
ItemType(item) == componentTypeMap[Get(item, "__component").s]

\* The key under which an attribute's value appears in the mapped data.
MappedKey(attribute) ==
    IF attribute.type = "richtext" THEN attribute.key \o "___NODE" ELSE attribute.key

\* C4: in dynamic-zone mapping an item whose __component is missing or does
\* not resolve in the component table fails the whole record's mapping; when
\* every item resolves, each is mapped through its component type and the
\* result carries the component's type name in _type and internal.type; a
\* null or absent value passes through unchanged and a value that is not an
\* array fails the mapping.
C4_DynamicZone ==
    HasMapped =>
        \A a \in MappedAttrs("dynamiczone") :
            LET items == Get(mapIn.entity, a.key)
                out == Get(mapOut.val, a.key) IN
            /\ Nullish(items) =>
                    mapOut.status = "ok" /\ out = items
                    /\ (items = JNull => HasEntry(mapOut.val, <<>>, a.key))
            /\ (~Nullish(items) /\ items.t # "array") => mapOut.status = "StrapiSourceError"
            /\ (items.t = "array" /\ \E i \in 1..Len(items.a) : BadItem(items.a[i])) =>
                    mapOut.status = "StrapiSourceError"
            /\ (items.t = "array" /\ \A i \in 1..Len(items.a) : ~BadItem(items.a[i])) =>
                    /\ mapOut.status = "ok"
                    /\ out.t = "array" /\ Len(out.a) = Len(items.a)
                    /\ \A i \in 1..Len(items.a) :
                        LET type == ItemType(items.a[i]) IN
                        /\ out.a[i].t = "object"
                        /\ Get(out.a[i], "_type") = JStr(GetTypeName(type))
                        /\ Get(out.a[i], "internal") =
                                JObj(<<Entry("type", JStr(GetTypeName(type)))>>)
                        /\ {out.a[i].o[j].k : j \in 1..Len(out.a[i].o)} =
                                {MappedKey(type.attributes[j]) : j \in 1..Len(type.attributes)}
                                    \cup {"internal", "_type"}
                        /\ \A j \in 1..Len(type.attributes) :
                                (type.attributes[j].type \in ScalarKinds
                                 /\ type.attributes[j].key \notin {"internal", "_type"}) =>
                                    Get(out.a[i], type.attributes[j].key) =
                                        Get(items.a[i], type.attributes[j].key)

\* A zone of a seo item and a quote item was mapped and both were annotated.
C4_Witness ==
    /\ mapOut.status = "ok"
    /\ \E a \in MappedAttrs("dynamiczone") :
        /\ Get(mapIn.entity, a.key) = JArr(<<SeoItem, QuoteItem>>)
        /\ Get(Get(mapOut.val, a.key).a[1], "_type") = JStr("StrapiSeo")
        /\ Get(Get(mapOut.val, a.key).a[2], "_type") = JStr("StrapiQuote")

\* C5: mapping a component attribute whose value is present fails whenever
\* the target component type is not in the component table, whenever a
\* repeatable component is given a value that is not an array, and whenever
\* a component that is not repeatable is given an array.
C5_ComponentShape ==
    HasMapped =>
        \A a \in MappedAttrs("component") :
            LET data == Get(mapIn.entity, a.key) IN
            ~Nullish(data) =>
                /\ a.target \notin DOMAIN componentTypeMap => mapOut.status = "StrapiSourceError"
                /\ (a.repeatable /\ data.t # "array") => mapOut.status = "StrapiSourceError"
                /\ (~a.repeatable /\ data.t = "array") => mapOut.status = "StrapiSourceError"

\* C6: after a successful mapping, every attribute of scalar kind, at every
\* nesting level, has an entry in the mapped data under its own key, holding
\* the value the raw data had under that key.
C6_ScalarIdentity ==
    mapOut.status = "ok" =>
        \A l \in mapLog.scalars :
            /\ HasEntry(mapOut.val, l.path, l.key)
            /\ Lookup(mapOut.val, Append(l.path, PKey(l.key))) = l.value

\* C7: two rich-text fields with the same text, in whichever record, type or
\* field, were given the same side node; two with differing text were given
\* distinct side nodes; the side node a field refers to is in the sink, once,
\* with the field's text; and the reference is the field's entry of the
\* mapped data (in a type where no other attribute writes that entry).
C7_RichtextContentAddressed ==
    /\ \A p \in rtLog, q \in rtLog : (p.text = q.text) <=> (p.ref = q.ref)
    /\ \A p \in rtLog :
        /\ Cardinality({n \in sink : n.id = p.ref}) = 1
        /\ \A n \in sink : n.id = p.ref =>
                n.type = "StrapiMarkdownString" /\ n.content = JStr(p.text)
    /\ mapOut.status = "ok" =>
        \A a \in MappedAttrs("richtext") :
            LET data == Get(mapIn.entity, a.key) IN
            (data.t = "string" /\ MappedAttrs("string") = {}) =>
                \E p \in rtLog : p.text = data.s /\ p.key = a.key
                                 /\ Get(mapOut.val, a.key \o "___NODE") = JStr(p.ref)

\* Two records were mapped; the same text occurred in a field of each and in
\* a field of an embedded author, with one side node, and another text got
\* another side node.
C7_Witness ==
    /\ mapped = 2
    /\ \E p \in rtLog, q \in rtLog, r \in rtLog :
        /\ p.rec = 1 /\ q.rec = 2 /\ p.path = <<>> /\ q.path # <<>>
        /\ p.text = q.text /\ p.ref = q.ref
        /\ r.text # p.text /\ r.ref # p.ref
        /\ \E n \in sink, k \in sink :
                n.id = p.ref /\ k.id = r.ref /\ n.content = JStr(p.text)
                /\ k.content = JStr(r.text)

\* out is the raw object data mapped through the content type: it has the
\* keys of the type's attributes and no others, the scalar values of data,
\* and every embedded relation object mapped in the same way.
RECURSIVE InlinedAs(_, _, _)
InlinedAs(type, data, out) ==
    /\ out.t = "object"
    /\ {out.o[j].k : j \in 1..Len(out.o)} =
            {MappedKey(type.attributes[j]) : j \in 1..Len(type.attributes)}
    /\ \A j \in 1..Len(type.attributes) :
        LET b == type.attributes[j]
            raw == Get(data, b.key)
        IN /\ b.type \in ScalarKinds => Get(out, b.key) = raw
           /\ (b.type = "relation" /\ (Nullish(raw) \/ raw.t = "number")) =>
                    Get(out, b.key) = raw
           /\ (b.type = "relation" /\ raw.t = "object") =>
                    /\ b.target \in DOMAIN contentTypeMap
                    /\ InlinedAs(contentTypeMap[b.target], raw, Get(out, b.key))

\* C14: a relation attribute whose value is null, absent or a number maps to
\* that value whether or not the registry knows the target; an object value
\* is mapped through the target content type and inlined under the
\* attribute's key; an object value whose target the registry does not know
\* fails the mapping.
C14_RelationMapping ==
    HasMapped =>
        \A a \in MappedAttrs("relation") :
            LET data == Get(mapIn.entity, a.key)
                out == Get(mapOut.val, a.key) IN
            /\ (Nullish(data) \/ data.t = "number") =>
                    /\ mapOut.status = "ok"
                    /\ out = data
                    /\ (data # JUndef => HasEntry(mapOut.val, <<>>, a.key))
            /\ (data.t = "object" /\ a.target \notin DOMAIN contentTypeMap) =>
                    mapOut.status = "StrapiSourceError"
            /\ (data.t = "object" /\ a.target \in DOMAIN contentTypeMap) =>
                    /\ mapOut.status = "ok"
                    /\ InlinedAs(contentTypeMap[a.target], data, out)
                    /\ \A n \in sink : n.type # GetTypeName(contentTypeMap[a.target])

\* An author with an embedded friend was inlined in the article.
C14_Witness ==
    /\ mapOut.status = "ok"
    /\ \E a \in MappedAttrs("relation") :
        /\ Get(mapIn.entity, a.key) = AuthorAl
        /\ Get(Get(mapOut.val, a.key), "name") = JStr("al")
        /\ Get(Get(Get(mapOut.val, a.key), "friend"), "name") = JStr("bob")

\* The createNode calls of the latest step.
NewlyHanded == SubSeq(handed', Len(handed) + 1, Len(handed'))

\* C15: the successful mapping of a record hands exactly one entity node to
\* createNode, the node of the content type holding the mapped data; every
\* other node the mapping hands on is the side node of a rich-text field, so
\* component items, dynamic-zone items and embedded relation objects stay
\* inlined in their owner; a failed mapping hands on no entity node.
C15_OneNodePerRecord ==
    [][mapped' = mapped + 1 =>
        /\ SubSeq(handed', 1, Len(handed)) = handed
        /\ mapOut'.status = "ok" =>
            /\ Len(NewlyHanded) >= 1
            /\ NewlyHanded[Len(NewlyHanded)] =
                    [id |-> EntityNodeId(mapIn'.type, mapOut'.val),
                     type |-> GetTypeName(contentTypeMap[mapIn'.type])]
            /\ \A i \in 1..(Len(NewlyHanded) - 1) :
                    NewlyHanded[i].type = "StrapiMarkdownString"
            /\ \E n \in sink' : n.id = EntityNodeId(mapIn'.type, mapOut'.val)
                               /\ n.content = mapOut'.val
        /\ mapOut'.status # "ok" =>
            \A i \in 1..Len(NewlyHanded) : NewlyHanded[i].type = "StrapiMarkdownString"
      ]_vars

\* Two records were mapped without a failure, the second with a dynamic zone
\* of two items: two entity nodes were handed on, none for the items.
C15_Witness ==
    /\ mapped = 2
    /\ mapOut.status = "ok"
    /\ \E a \in MappedAttrs("dynamiczone") :
            /\ Get(mapIn.entity, a.key) = JArr(<<SeoItem, QuoteItem>>)
            /\ Len(Get(mapOut.val, a.key).a) = 2
    /\ Cardinality({i \in 1..Len(handed) : handed[i].type = "StrapiArticle"}) = 2
    /\ \A i \in 1..Len(handed) : handed[i].type \in {"StrapiArticle", "StrapiMarkdownString"}

\* The keys an attribute's entry may have in the mapped data.
OutKeys(attribute) == {attribute.key, attribute.key \o "___NODE"}

\* The position of the entry of an attribute in the mapped data, 0 when the
\* attribute has none.
EntryPos(o, attribute) ==
    IF \E p \in 1..Len(o) : o[p].k \in OutKeys(attribute)
    THEN CHOOSE p \in 1..Len(o) :
            /\ o[p].k \in OutKeys(attribute)
            /\ (o[p].k = attribute.key
                \/ ~\E q \in 1..Len(o) : o[q].k = attribute.key)
    ELSE 0

\* C23: the entries of a mapped record stand in the order of the attributes
\* of the schema, in whichever order the attribute mappings completed: of two
\* attributes with different names, the entry of the one the schema lists
\* first comes first.
C23_SchemaOrder ==
    (HasMapped /\ mapOut.status = "ok") =>
        LET attributes == MappedType.attributes
            o == mapOut.val.o IN
        /\ \A i \in 1..Len(attributes) : EntryPos(o, attributes[i]) > 0
        /\ \A i, j \in 1..Len(attributes) :
            (i < j /\ OutKeys(attributes[i]) \cap OutKeys(attributes[j]) = {}) =>
                EntryPos(o, attributes[i]) < EntryPos(o, attributes[j])

\* A record of a type with a media attribute followed by a title was mapped;
\* the media entry comes first in the mapped data.
C23_Witness ==
    /\ HasMapped /\ mapOut.status = "ok"
    /\ Len(MappedType.attributes) = 2
    /\ MappedType.attributes[1].type = "media"
    /\ MappedType.attributes[2].key = "title"
    /\ Len(mapOut.val.o) = 2
    /\ mapOut.val.o[1].k = "cover___NODE"
    /\ mapOut.val.o[2] = Entry("title", JStr("a"))

\* C24: the mapped record has exactly one entry per attribute of the schema
\* and no other entry: every attribute has an entry under its name, or under
\* its name with the suffix ___NODE when it is a rich-text or media
\* attribute, no two attributes share an entry, and no entry has the key of a
\* raw field the schema does not list.
C24_OneEntryPerAttribute ==
    (HasMapped /\ mapOut.status = "ok") =>
        LET attributes == MappedType.attributes
            o == mapOut.val.o IN
        /\ Len(o) = Len(attributes)
        /\ \A i \in 1..Len(attributes) :
            \E p \in 1..Len(o) :
                o[p].k \in (IF attributes[i].type \in {"richtext", "media"}
                            THEN OutKeys(attributes[i]) ELSE {attributes[i].key})
        /\ \A p \in 1..Len(o) :
            /\ \E i \in 1..Len(attributes) : o[p].k \in OutKeys(attributes[i])
            /\ o[p].k # "created_by"
            /\ \A q \in 1..Len(o) : o[q].k = o[p].k => q = p

\* C25: the entity node handed to createNode for a record with a numeric id
\* has the identity made of the content type's apiID and that id, whether
\* or not the schema lists an attribute id.
C25_NodeIdentity ==
    (HasMapped /\ mapOut.status = "ok" /\ Get(mapIn.entity, "id").t = "number") =>
        /\ Len(handed) >= 1
        /\ handed[Len(handed)].id =
                mapIn.type \o "_" \o ToString(Get(mapIn.entity, "id").n)

\* The nesting depth of a value: the length of the longest path into it.
Max(S) == CHOOSE x \in S : \A y \in S : y <= x
RECURSIVE Depth(_)
Depth(v) ==
    CASE v.t = "object" /\ v.o # <<>> -> 1 + Max({Depth(v.o[i].v) : i \in 1..Len(v.o)})
      [] v.t = "array" /\ v.a # <<>> -> 1 + Max({Depth(v.a[i]) : i \in 1..Len(v.a)})
      [] OTHER -> 0

\* C29: every mapping ends, also with the cyclic schema of author, and every
\* mapEntityType call of the mapping was made on a value that is in the raw
\* record, at the path of the call: the depth of the recursion is at most the
\* nesting depth of the record.
C29_DepthBoundedByData ==
    HasMapped =>
        /\ mapOut.status \in {"ok", "StrapiSourceError"}
        /\ <<>> \in mapLog.calls
        /\ \A p \in mapLog.calls :
            /\ p # <<>> => Lookup(mapIn.entity, p) # JUndef
            /\ Len(p) <= Depth(mapIn.entity)

\* A record with an author whose friend is an author was mapped: the type
\* author, which refers to itself, was descended into twice and no further.
C29_Witness ==
    /\ HasMapped /\ mapOut.status = "ok"
    /\ Get(mapIn.entity, "author") = AuthorAl
    /\ mapLog.calls = {<<>>, <<PKey("author")>>, <<PKey("author"), PKey("friend")>>}

\* The side nodes the latest mapping made for the attribute key of the record.
SideNodesOf(key) == {p \in rtLog : p.rec = mapped /\ p.path = <<>> /\ p.key = key}

\* C30: the mapping of a rich-text attribute makes a side node exactly when
\* the raw value is a non-empty string; for a null, absent, non-string or
\* empty value it makes none, the entry is an absent reference and the
\* mapping of the record does not fail for it.
C30_RichtextNonEmpty ==
    HasMapped =>
        \A a \in MappedAttrs("richtext") :
            LET data == Get(mapIn.entity, a.key) IN
            IF data.t = "string" /\ data.s # ""
            THEN mapOut.status = "ok" => SideNodesOf(a.key) # {}
            ELSE /\ SideNodesOf(a.key) = {}
                 /\ Len(MappedType.attributes) = 1 =>
                        /\ mapOut.status = "ok"
                        /\ Get(mapOut.val, a.key \o "___NODE") = JUndef

(***************************************************************************)
(* The Type Definition Generator: createSchemaCustomization, defineType    *)
(* and the attribute-to-field mappers.  The recursion of defineType is     *)
(* kept as an explicit call stack; every action is one step of the         *)
(* synchronous code.                                                       *)
(***************************************************************************)

\* this.graphqlTypes.set(fullTypeName, undefined): the reserved slot
Pending == [name |-> "", interfaces |-> <<>>, fields |-> <<>>, built |-> FALSE]

\* this.args.schema.buildObjectType({ name, interfaces, fields })
BuildObjectType(name, interfaces, fields) ==
    [name |-> name, interfaces |-> interfaces, fields |-> fields, built |-> TRUE]

\* this.graphqlTypes.has(key)
MapHas(m, key) == \E i \in 1..Len(m) : m[i].name = key

\* this.graphqlTypes.get(key), for a key the map has
MapGet(m, key) == m[CHOOSE i \in 1..Len(m) : m[i].name = key].def

\* this.graphqlTypes.set(key, def): the entry of the key is replaced where it
\* stands, a new key is added at the end.
MapSet_Append(m, key, def) == Append(m, [name |-> key, def |-> def])
MapSet(m, key, def) ==
    IF MapHas(m, key)
    THEN [i \in 1..Len(m) |-> IF m[i].name = key THEN [name |-> key, def |-> def] ELSE m[i]]
    ELSE Append(m, [name |-> key, def |-> def])

\* const reqSuffix = attribute.required ? '!' : ''
ReqSuffix(attribute) == IF attribute.required THEN "!" ELSE ""

\* The cases of mapAttributeToType that call no other method; "" stands for
\* undefined, the value of an attribute type that has no case.
PlainFieldType(attribute) ==
    CASE attribute.type \in {"string", "enumeration"} -> "String" \o ReqSuffix(attribute)
      [] attribute.type = "richtext" -> "StrapiMarkdownString" \o ReqSuffix(attribute)
      [] attribute.type \in {"datetime", "timestamp"} -> "Date" \o ReqSuffix(attribute)
      [] attribute.type = "integer" -> "Int" \o ReqSuffix(attribute)
      [] attribute.type = "media" -> "File" \o ReqSuffix(attribute)
      [] OTHER -> ""

\* The attributes mapRelationToType and mapComponentToType are called for;
\* both look their target up in this.contentTypeMap.
IsReference(attribute) == attribute.type \in {"relation", "component"}
TargetKnown(attribute) == attribute.target \in DOMAIN contentTypeMap
TargetName(attribute) == GetTypeName(contentTypeMap[attribute.target])

\* A defineType call in progress.
Frame(ct) == [ct |-> ct, i |-> 1, fields |-> <<>>]
Top == callStack[Len(callStack)]
TopAttribute == Top.ct.attributes[Top.i]

\* .filter(x => x[1]): a field of type undefined is dropped
WithField_NoFilter(fields, key, type) == Append(fields, [k |-> key, type |-> type])
WithField(fields, key, type) ==
    IF type = "" THEN fields ELSE Append(fields, [k |-> key, type |-> type])

\* The frame after mapAttributeToType returned `type` for its attribute.
Advance(frame, type) ==
    [frame EXCEPT !.i = @ + 1,
                  !.fields = WithField(@, frame.ct.attributes[frame.i].key, type)]

\* init: the content types that are not excluded and, when allowedTypes is
\* given, are allowed
Retained_AllowFirst(served, excludedTypes, allowedTypes) ==
    SelectSeq(served, LAMBDA x : IF allowedTypes.given THEN x.apiID \in allowedTypes.list
                                 ELSE x.apiID \notin excludedTypes)
Retained(served, excludedTypes, allowedTypes) ==
    SelectSeq(served, LAMBDA x : /\ x.apiID \notin excludedTypes
                                 /\ (~allowedTypes.given \/ x.apiID \in allowedTypes.list))

\* new Map(contentTypes.data.map(t => [t.apiID, t])): a later type replaces
\* an earlier one of the same apiID
ByApiID(served) ==
    [id \in {served[i].apiID : i \in 1..Len(served)} |->
        served[CHOOSE i \in 1..Len(served) :
                    /\ served[i].apiID = id
                    /\ \A j \in 1..Len(served) : served[j].apiID = id => j <= i]]

\* The schemas the server may serve.
RequiredTitle == Attribute("title", "string", "", <<>>, FALSE, TRUE)

ArticleSchemas ==
    {<<RequiredTitle>>,
     <<Scalar("title", "string"), Relation("author", "author")>>,
     <<Relation("related", "article"), Scalar("views", "integer")>>,
     <<Relation("owner", "user"), Media("cover")>>,
     <<Relation("ghost", "ghost"), Richtext("intro")>>,
     <<Component("seo", "shared.seo", FALSE),
       Dynamiczone("body", <<"shared.seo", "shared.quote">>),
       Scalar("published", "datetime")>>,
     <<Relation("post", "blog_post"), Relation("author", "author"),
       Scalar("flag", "boolean")>>}

AuthorSchemas ==
    {<<Scalar("name", "string")>>,
     <<Relation("articles", "article")>>,
     <<Relation("friend", "author"), Relation("post", "blog-post")>>,
     <<Relation("owner", "user"), Relation("articles", "article")>>}

SchemaAuthor(attributes) ==
    EntityType("application::author.author", "author", "collectionType", "contentType",
               attributes)
UserType ==
    EntityType("plugins::users-permissions.user", "user", "collectionType", "contentType",
               <<Scalar("username", "string"), Relation("articles", "article")>>)
BlogDash ==
    EntityType("application::blog-post.blog-post", "blog-post", "collectionType",
               "contentType", <<Scalar("title", "string")>>)
BlogUnderscore ==
    EntityType("application::blog_post.blog_post", "blog_post", "collectionType",
               "contentType", <<Scalar("slug", "string"), Relation("author", "author")>>)

ServedTypes(article, author) ==
    {<<>>,
     <<ArticleType(article), SchemaAuthor(author), UserType>>,
     <<SchemaAuthor(author), ArticleType(article), UserType, BlogDash, BlogUnderscore>>,
     <<UserType, BlogUnderscore, ArticleType(article)>>}

\* options.excludedTypes || ['user', 'role', 'permission']
DefaultExcludedTypes == {"user", "role", "permission"}

\* options.allowedTypes
AllowedTypeOptions ==
    {NotGiven, Given({"article"}), Given({"author", "blog-post", "blog_post"})}

\* The plugin after init(): the registry is loaded and filtered, no type is
\* declared yet.
InitSchema ==
    /\ \E article \in ArticleSchemas, author \in AuthorSchemas :
        \E served \in ServedTypes(article, author), allowedTypes \in AllowedTypeOptions :
            /\ contentTypeMap = ByApiID(served)
            /\ contentTypes = Retained(served, DefaultExcludedTypes, allowedTypes)
    /\ componentTypeMap = [uid \in {"shared.seo", "shared.quote"} |->
                                IF uid = "shared.seo" THEN SeoComponent ELSE QuoteComponent]
    /\ SchemaQuiet
    /\ FetchQuiet
    /\ MediaQuiet
    /\ MapQuiet
    /\ RunQuiet

\* createSchemaCustomization is called on the initialized plugin.
CreateSchemaCustomizationCall ==
    /\ schemaPc = "idle"
    /\ schemaPc' = "loop"
    /\ ctIndex' = 1
    /\ UNCHANGED <<graphqlTypes, callStack, typeDefs, reserved, placeholders>>
    /\ UNCHANGED notSchema

\* for (const ct of this.contentTypes) this.defineType(ct): the call returns
\* the declaration the table has, or reserves the slot and starts on the
\* fields.
DefineTypeTop ==
    /\ schemaPc = "loop"
    /\ callStack = <<>>
    /\ ctIndex <= Len(contentTypes)
    /\ LET ct == contentTypes[ctIndex]
           fullTypeName == GetTypeName(ct)
       IN IF MapHas(graphqlTypes, fullTypeName)
          THEN UNCHANGED <<graphqlTypes, callStack, reserved>>
          ELSE /\ graphqlTypes' = MapSet(graphqlTypes, fullTypeName, Pending)
               /\ callStack' = <<Frame(ct)>>
               /\ reserved' = Append(reserved, fullTypeName)
    /\ ctIndex' = ctIndex + 1
    /\ UNCHANGED <<schemaPc, typeDefs, placeholders>>
    /\ UNCHANGED notSchema

\* mapAttributeToType for an attribute that starts no new declaration: a
\* plain field, an attribute without a case, a target the registry does not
\* know, or a target whose name the table already has (defineType returns
\* at once, with the reserved slot when that declaration is in progress).
MapAttributeToType_DropPending ==
    /\ callStack # <<>>
    /\ Top.i <= Len(Top.ct.attributes)
    /\ LET attribute == TopAttribute IN
        IF ~IsReference(attribute)
        THEN /\ callStack' = [callStack EXCEPT ![Len(callStack)] =
                                    Advance(@, PlainFieldType(attribute))]
             /\ UNCHANGED placeholders
        ELSE IF ~TargetKnown(attribute)
        THEN /\ callStack' = [callStack EXCEPT ![Len(callStack)] = Advance(@, "")]
             /\ UNCHANGED placeholders
        ELSE /\ MapHas(graphqlTypes, TargetName(attribute))
             /\ callStack' = [callStack EXCEPT ![Len(callStack)] =
                                    Advance(@, IF MapGet(graphqlTypes, TargetName(attribute))
                                                    = Pending
                                               THEN "" ELSE TargetName(attribute))]
             /\ placeholders' =
                    IF MapGet(graphqlTypes, TargetName(attribute)) = Pending
                    THEN placeholders \cup {TargetName(attribute)}
                    ELSE placeholders
    /\ UNCHANGED <<graphqlTypes, schemaPc, ctIndex, typeDefs, reserved>>
    /\ UNCHANGED notSchema
MapAttributeToType ==
    /\ callStack # <<>>
    /\ Top.i <= Len(Top.ct.attributes)
    /\ LET attribute == TopAttribute IN
        IF ~IsReference(attribute)
        THEN /\ callStack' = [callStack EXCEPT ![Len(callStack)] =
                                    Advance(@, PlainFieldType(attribute))]
             /\ UNCHANGED placeholders
        ELSE IF ~TargetKnown(attribute)
        THEN /\ callStack' = [callStack EXCEPT ![Len(callStack)] = Advance(@, "")]
             /\ UNCHANGED placeholders
        ELSE /\ MapHas(graphqlTypes, TargetName(attribute))
             /\ callStack' = [callStack EXCEPT ![Len(callStack)] =
                                    Advance(@, TargetName(attribute))]
             /\ placeholders' =
                    IF MapGet(graphqlTypes, TargetName(attribute)) = Pending
                    THEN placeholders \cup {TargetName(attribute)}
                    ELSE placeholders
    /\ UNCHANGED <<graphqlTypes, schemaPc, ctIndex, typeDefs, reserved>>
    /\ UNCHANGED notSchema

\* mapRelationToType / mapComponentToType call defineType for a target whose
\* name the table does not have: the slot is reserved and the fields of the
\* target are started on.
DefineTypeNested ==
    /\ callStack # <<>>
    /\ Top.i <= Len(Top.ct.attributes)
    /\ IsReference(TopAttribute)
    /\ TargetKnown(TopAttribute)
    /\ ~MapHas(graphqlTypes, TargetName(TopAttribute))
    /\ graphqlTypes' = MapSet(graphqlTypes, TargetName(TopAttribute), Pending)
    /\ callStack' = Append(callStack, Frame(contentTypeMap[TopAttribute.target]))
    /\ reserved' = Append(reserved, TargetName(TopAttribute))
    /\ UNCHANGED <<schemaPc, ctIndex, typeDefs, placeholders>>
    /\ UNCHANGED notSchema

\* The fields of the innermost declaration are complete: the declaration is
\* built and stored, and the caller, if there is one, gets its field
\* { type: typeName }.
DefineTypeReturn ==
    /\ callStack # <<>>
    /\ Top.i > Len(Top.ct.attributes)
    /\ LET fullTypeName == GetTypeName(Top.ct)
           typeDef == BuildObjectType(fullTypeName,
                            IF Top.ct.modelType = "contentType" THEN <<"Node">> ELSE <<>>,
                            Top.fields)
           callers == SubSeq(callStack, 1, Len(callStack) - 1)
       IN /\ graphqlTypes' = MapSet(graphqlTypes, fullTypeName, typeDef)
          /\ callStack' = IF callers = <<>> THEN <<>>
                          ELSE [callers EXCEPT ![Len(callers)] = Advance(@, fullTypeName)]
    /\ UNCHANGED <<schemaPc, ctIndex, typeDefs, reserved, placeholders>>
    /\ UNCHANGED notSchema

\* Array.from(this.graphqlTypes.values()).filter(Boolean)
Declared(m) == SelectSeq([i \in 1..Len(m) |-> m[i].def], LAMBDA def : def.built)

MarkdownType ==
    BuildObjectType("StrapiMarkdownString", <<"Node">>, <<[k |-> "text", type |-> "String!"]>>)

\* The loop is over: the declarations and StrapiMarkdownString are handed to
\* createTypes.
CreateTypes ==
    /\ schemaPc = "loop"
    /\ callStack = <<>>
    /\ ctIndex > Len(contentTypes)
    /\ typeDefs' = Append(Declared(graphqlTypes), MarkdownType)
    /\ schemaPc' = "done"
    /\ UNCHANGED <<graphqlTypes, ctIndex, callStack, reserved, placeholders>>
    /\ UNCHANGED notSchema

NextSchema ==
    \/ CreateSchemaCustomizationCall
    \/ DefineTypeTop
    \/ MapAttributeToType
    \/ DefineTypeNested
    \/ DefineTypeReturn
    \/ CreateTypes

SpecSchema == InitSchema /\ [][NextSchema]_vars

\* The synchronous code runs to completion: a step that can be taken is taken.
SpecSchemaFair == SpecSchema /\ WF_vars(NextSchema)

(***************************************************************************)
(* Claims about the Type Definition Generator.                             *)
(***************************************************************************)

\* On completion the table has one entry per type name defineType reserved,
\* each a finished declaration of that name, and all of them were handed on.
SchemaComplete ==
    schemaPc = "done" =>
        /\ callStack = <<>>
        /\ \A i \in 1..Len(graphqlTypes) :
            /\ graphqlTypes[i].def # Pending
            /\ graphqlTypes[i].def.built
            /\ graphqlTypes[i].def.name = graphqlTypes[i].name
        /\ \A i \in 1..Len(graphqlTypes), j \in 1..Len(graphqlTypes) :
                graphqlTypes[i].name = graphqlTypes[j].name => i = j
        /\ {graphqlTypes[i].name : i \in 1..Len(graphqlTypes)}
                = {reserved[i] : i \in 1..Len(reserved)}
        /\ Len(typeDefs) = Len(graphqlTypes) + 1

\* C3: createSchemaCustomization terminates for every schema, also when two
\* content types refer to each other or a type refers to itself, and on
\* completion the declaration table holds exactly one finished declaration
\* per type name that was defined, with no slot left reserved.
C3_SchemaTerminatesComplete == <>(schemaPc = "done") /\ []SchemaComplete

\* The pass completed on a schema where article and author refer to each
\* other: the declaration of one was in progress when the other asked for it,
\* and both are finished.
C3_Witness ==
    /\ schemaPc = "done"
    /\ placeholders # {}
    /\ {"StrapiArticle", "StrapiAuthor"} \subseteq {reserved[i] : i \in 1..Len(reserved)}
    /\ MapGet(graphqlTypes, "StrapiArticle").built
    /\ MapGet(graphqlTypes, "StrapiAuthor").built
    /\ \E f \in 1..Len(MapGet(graphqlTypes, "StrapiAuthor").fields) :
            MapGet(graphqlTypes, "StrapiAuthor").fields[f].type = "StrapiArticle"
    /\ \E f \in 1..Len(MapGet(graphqlTypes, "StrapiArticle").fields) :
            MapGet(graphqlTypes, "StrapiArticle").fields[f].type = "StrapiAuthor"

\* const unionTypeName = `StrapiUnion_${this.getTypeName(entityType)}_${key}`
UnionTypeName(entityType, key) == "StrapiUnion_" \o GetTypeName(entityType) \o "_" \o key

\* The members of a union declaration; an object declaration has none.
UnionMembers(def) == IF "types" \in DOMAIN def THEN def.types ELSE <<>>

\* C16: on completion, every dynamic-zone attribute of a declared type has a
\* union declaration in the table, named StrapiUnion_<owner>_<field>, whose
\* members are the declarations of the zone's components, and the owner's
\* declaration has a field of that union type.
C16_DynamicZoneUnion ==
    schemaPc = "done" =>
        \A id \in DOMAIN contentTypeMap :
            LET ct == contentTypeMap[id] IN
            MapHas(graphqlTypes, GetTypeName(ct)) =>
                \A i \in 1..Len(ct.attributes) :
                    ct.attributes[i].type = "dynamiczone" =>
                        /\ MapHas(graphqlTypes, UnionTypeName(ct, ct.attributes[i].key))
                        /\ Len(UnionMembers(MapGet(graphqlTypes,
                                    UnionTypeName(ct, ct.attributes[i].key))))
                                = Len(ct.attributes[i].components)
                        /\ \E f \in 1..Len(MapGet(graphqlTypes, GetTypeName(ct)).fields) :
                                MapGet(graphqlTypes, GetTypeName(ct)).fields[f] =
                                    [k |-> ct.attributes[i].key,
                                     type |-> "[" \o UnionTypeName(ct, ct.attributes[i].key)
                                                  \o "!]!"]

\* The declaration of the type named name has the field key of type type.
HasField(name, key, type) ==
    /\ MapHas(graphqlTypes, name)
    /\ MapGet(graphqlTypes, name).built
    /\ \E f \in 1..Len(MapGet(graphqlTypes, name).fields) :
            MapGet(graphqlTypes, name).fields[f] = [k |-> key, type |-> type]

\* C26: on completion, for every component attribute of a declared type
\* whose component the component table has, the component has a declaration
\* and the owner's declaration has the field, of the component's type name.
C26_ComponentField ==
    schemaPc = "done" =>
        \A id \in DOMAIN contentTypeMap :
            LET ct == contentTypeMap[id] IN
            MapHas(graphqlTypes, GetTypeName(ct)) =>
                \A i \in 1..Len(ct.attributes) :
                    (/\ ct.attributes[i].type = "component"
                     /\ ct.attributes[i].target \in DOMAIN componentTypeMap) =>
                        LET typeName ==
                                GetTypeName(componentTypeMap[ct.attributes[i].target]) IN
                        /\ MapHas(graphqlTypes, typeName)
                        /\ MapGet(graphqlTypes, typeName).built
                        /\ HasField(GetTypeName(ct), ct.attributes[i].key, typeName)

\* A relation or component attribute whose target the lookup does not find.
Dangling(attribute) == IsReference(attribute) /\ ~TargetKnown(attribute)

\* The type of the field an attribute gives, "" when it gives none.
FieldTypeOf(attribute) ==
    IF IsReference(attribute)
    THEN (IF TargetKnown(attribute) THEN TargetName(attribute) ELSE "")
    ELSE PlainFieldType(attribute)

\* The fields of the declaration of ct were the dangling attributes not there.
FieldsWithoutDangling(ct) ==
    LET kept == SelectSeq(ct.attributes, LAMBDA a : FieldTypeOf(a) # "") IN
    [i \in 1..Len(kept) |-> [k |-> kept[i].key, type |-> FieldTypeOf(kept[i])]]

\* On completion every retained type and every resolved target is declared,
\* and each declaration has the fields of its other attributes, in order,
\* and no field for a dangling attribute.
DanglingOmitted ==
    schemaPc = "done" =>
        /\ \A i \in 1..Len(contentTypes) : MapHas(graphqlTypes, GetTypeName(contentTypes[i]))
        /\ \A i \in 1..Len(graphqlTypes) :
            \E id \in DOMAIN contentTypeMap :
                LET ct == contentTypeMap[id] IN
                /\ GetTypeName(ct) = graphqlTypes[i].name
                /\ graphqlTypes[i].def.built
                /\ graphqlTypes[i].def.fields = FieldsWithoutDangling(ct)
                /\ \A a \in 1..Len(ct.attributes) :
                    /\ Dangling(ct.attributes[a]) =>
                        ~\E f \in 1..Len(graphqlTypes[i].def.fields) :
                            graphqlTypes[i].def.fields[f].k = ct.attributes[a].key
                    /\ (IsReference(ct.attributes[a]) /\ TargetKnown(ct.attributes[a])) =>
                        MapHas(graphqlTypes, TargetName(ct.attributes[a]))

\* C27: a relation or component attribute whose target does not resolve
\* never aborts the pass: the pass completes, the attribute's field is left
\* out of its owner's declaration, and every other declaration and field is
\* there as without the attribute.
C27_DanglingNeverAborts == <>(schemaPc = "done") /\ []DanglingOmitted

\* The pass completed on an article with a relation to a type the registry
\* does not have, followed by a rich-text attribute: the declaration has the
\* rich-text field only.
C27_Witness ==
    /\ schemaPc = "done"
    /\ "article" \in DOMAIN contentTypeMap
    /\ \E a \in 1..Len(contentTypeMap["article"].attributes) :
            /\ Dangling(contentTypeMap["article"].attributes[a])
            /\ contentTypeMap["article"].attributes[a].type = "relation"
    /\ MapHas(graphqlTypes, "StrapiArticle")
    /\ MapGet(graphqlTypes, "StrapiArticle").fields =
            <<[k |-> "intro", type |-> "StrapiMarkdownString"]>>

\* C28: a relation met while its target's declaration is still in progress
\* (the types refer to each other, or a type refers to itself) keeps its
\* field: on completion every relation attribute of a declared type whose
\* target resolves has its field, of the target's type name, the target is
\* declared, and no reserved slot is among the declarations handed on.
C28_CyclicRelationsKept ==
    schemaPc = "done" =>
        /\ \A id \in DOMAIN contentTypeMap :
            LET ct == contentTypeMap[id] IN
            (MapHas(graphqlTypes, GetTypeName(ct))
                /\ \A other \in DOMAIN contentTypeMap :
                        GetTypeName(contentTypeMap[other]) = GetTypeName(ct) => other = id) =>
                \A i \in 1..Len(ct.attributes) :
                    (ct.attributes[i].type = "relation" /\ TargetKnown(ct.attributes[i])) =>
                        /\ HasField(GetTypeName(ct), ct.attributes[i].key,
                                    TargetName(ct.attributes[i]))
                        /\ MapHas(graphqlTypes, TargetName(ct.attributes[i]))
                        /\ MapGet(graphqlTypes, TargetName(ct.attributes[i])).built
        /\ \A n \in placeholders : MapHas(graphqlTypes, n) /\ MapGet(graphqlTypes, n).built
        /\ \A d \in 1..Len(typeDefs) : typeDefs[d] # Pending /\ typeDefs[d].built

\* The pass completed on an article that refers to itself and an author that
\* refers to the article: the reserved slot of StrapiArticle was returned to
\* both, and both fields are in the finished declarations.
C28_Witness ==
    /\ schemaPc = "done"
    /\ "StrapiArticle" \in placeholders
    /\ HasField("StrapiArticle", "related", "StrapiArticle")
    /\ HasField("StrapiAuthor", "articles", "StrapiArticle")

(***************************************************************************)
(* The run: the hooks sourceNodes and createSchemaCustomization of         *)
(* gatsby-node on the shared plugin instance, init with its two schema     *)
(* requests, and the per-type tasks of sourceNodes.  Fetching and mapping  *)
(* the entities of one type are taken as two steps with their outcome.     *)
(***************************************************************************)
MaxRunRecords == 2

ContentTypesPath == "content-manager/content-types"
ComponentsPath == "content-manager/components"
SchemaPaths == {ContentTypesPath, ComponentsPath}

\* this.excludedTypes = options.excludedTypes || ['user', 'role', 'permission']
ExcludedTypes(opt) == IF opt.given THEN opt.list ELSE DefaultExcludedTypes

\* The options a site may configure.
ExcludedTypeChoices == {NotGiven, Given({}), Given({"article", "author"})}
AllowedTypeChoices == {NotGiven, Given({}), Given({"article", "user"})}

\* The content types the server may serve, without two of one apiID.
RunServedTypes ==
    {<<>>,
     <<ArticleType(<<>>), SchemaAuthor(<<>>), UserType>>,
     <<UserType, ArticleType(<<>>)>>}

\* new Map(components.data.map(t => [t.uid, t]))
ComponentsByUid ==
    [uid \in {"shared.seo", "shared.quote"} |->
        IF uid = "shared.seo" THEN SeoComponent ELSE QuoteComponent]

ApiIDs(types) == {types[i].apiID : i \in 1..Len(types)}

\* The login data a site may configure, and the tokens the server may return.
LoginDataChoices ==
    {NoLoginData} \cup {LoginData(i, p) : i \in {"", "admin"}, p \in {"", "secret"}}
Tokens == {"jwt1", "jwt2"}

\* Authorization: `Bearer ${this.token}`
Bearer(jwt) == "Bearer " \o jwt

\* The error login throws before any request, "" when it throws none.
LoginError_IdentifierOnly(loginData) ==
    IF ~loginData.given THEN ""
    ELSE IF loginData.identifier = "" THEN "Empty identifier"
    ELSE ""
LoginError(loginData) ==
    IF ~loginData.given THEN ""
    ELSE IF loginData.identifier = "" THEN "Empty identifier"
    ELSE IF loginData.password = "" THEN "Empty password"
    ELSE ""

\* axios.get(url, this.requestConfig) as the server sees it.
AxiosGet(path, config, logins) == [path |-> path, auth |-> config, logins |-> logins]

\* The plugin after its construction by the first hook that is invoked.
InitRun ==
    /\ \E excluded \in ExcludedTypeChoices, allowed \in AllowedTypeChoices,
          login \in LoginDataChoices :
            options = [excludedTypes |-> excluded, allowedTypes |-> allowed,
                       loginData |-> login]
    /\ servedTypes \in RunServedTypes
    /\ initialized = FALSE
    /\ hook = [h \in Hooks |-> IdleHook]
    /\ schemaReqs = <<>>
    /\ typePc = [t \in RunApiIDs |-> "idle"]
    /\ entityReqs = {}
    /\ records = [t \in RunApiIDs |-> 0]
    /\ runNodes = [t \in RunApiIDs |-> 0]
    /\ panics = 0
    /\ timer = [started |-> 0, ended |-> 0]
    /\ token = ""
    /\ requestConfig = ""
    /\ loginPosts = 0
    /\ loginLog = <<>>
    /\ sent = {}
    /\ RegistryQuiet
    /\ FetchQuiet
    /\ MediaQuiet
    /\ MapQuiet
    /\ SchemaQuiet

\* The body of hook h after `if (!this.initialized) await this.init()`, on the
\* retained content types cts.  sourceNodes starts the timer and the task of
\* every retained type, each of which issues its first entity request;
\* createSchemaCustomization declares the types and returns.
StartBody(h, cts, hk) ==
    IF h = "sourceNodes"
    THEN /\ hook' = [hk EXCEPT ![h].pc = "run"]
         /\ timer' = [timer EXCEPT !.started = @ + 1]
         /\ typePc' = [t \in RunApiIDs |-> IF t \in ApiIDs(cts) THEN "fetching" ELSE typePc[t]]
         /\ entityReqs' = entityReqs \cup ApiIDs(cts)
         /\ sent' = sent \cup {AxiosGet(t, requestConfig, Len(loginLog)) : t \in ApiIDs(cts)}
    ELSE /\ hook' = [hk EXCEPT ![h].pc = "done"]
         /\ UNCHANGED <<timer, typePc, entityReqs, sent>>

\* gatsby-node calls the hook: with an initialized plugin the body starts at
\* once, otherwise init is called and calls login, which returns without
\* login data, throws on an empty identifier or password, and otherwise posts
\* the login data to auth/local and awaits the response.
HookCall(h) ==
    /\ hook[h].pc = "idle"
    /\ IF initialized
       THEN /\ StartBody(h, contentTypes, hook)
            /\ UNCHANGED loginPosts
       ELSE /\ IF LoginError(options.loginData) # ""
               THEN /\ hook' = [hook EXCEPT ![h].pc = "rejected",
                                            ![h].error = LoginError(options.loginData)]
                    /\ UNCHANGED loginPosts
               ELSE /\ hook' = [hook EXCEPT ![h].pc = "login"]
                    /\ loginPosts' = loginPosts + (IF options.loginData.given THEN 1 ELSE 0)
            /\ UNCHANGED <<timer, typePc, entityReqs, sent>>
    /\ UNCHANGED <<options, servedTypes, initialized, schemaReqs, records, runNodes, panics>>
    /\ UNCHANGED <<token, requestConfig, loginLog>>
    /\ UNCHANGED <<registryVars, notRun>>

\* login resolved, with the token jwt of the response when login data is
\* given: the token and the request config are set, and fetchTypes issues the
\* two schema requests with the request config.
LoginResolve(h, jwt) ==
    /\ hook[h].pc = "login"
    /\ IF options.loginData.given
       THEN /\ token' = jwt
            /\ requestConfig' = Bearer(jwt)
            /\ loginLog' = Append(loginLog, jwt)
       ELSE /\ jwt = "jwt1"
            /\ UNCHANGED <<token, requestConfig, loginLog>>
    /\ hook' = [hook EXCEPT ![h].pc = "fetchTypes", ![h].pending = SchemaPaths]
    /\ schemaReqs' = schemaReqs \o <<[path |-> ContentTypesPath, hook |-> h],
                                     [path |-> ComponentsPath, hook |-> h]>>
    /\ sent' = sent \cup {AxiosGet(path, requestConfig', Len(loginLog')) : path \in SchemaPaths}
    /\ UNCHANGED <<options, servedTypes, initialized, typePc, entityReqs, records, runNodes,
                   panics, timer, loginPosts>>
    /\ UNCHANGED <<registryVars, notRun>>

\* The post of login failed, or its response carried no jwt string: login
\* throws, init and the hook are rejected.
LoginReject(h) ==
    /\ hook[h].pc = "login"
    /\ options.loginData.given
    /\ hook' = [hook EXCEPT ![h].pc = "rejected", ![h].error = "Auth request error"]
    /\ UNCHANGED <<options, servedTypes, initialized, schemaReqs, typePc, entityReqs, records,
                   runNodes, panics, timer, authVars>>
    /\ UNCHANGED <<registryVars, notRun>>

\* A schema request of the init of h was answered.  With the second answer
\* fetchTypes sets the two maps (recorded in the hook's field loaded), init filters the content types and sets
\* initialized, and the body of the hook starts.
SchemaResolve(h, path) ==
    /\ hook[h].pc = "fetchTypes"
    /\ path \in hook[h].pending
    /\ IF hook[h].pending = {path}
       THEN /\ contentTypeMap' = ByApiID(servedTypes)
            /\ componentTypeMap' = ComponentsByUid
            /\ contentTypes' = Retained(servedTypes, ExcludedTypes(options.excludedTypes),
                                        options.allowedTypes)
            /\ initialized' = TRUE
            /\ StartBody(h, contentTypes',
                         [hook EXCEPT ![h].pending = {}, ![h].loaded = TRUE])
       ELSE /\ hook' = [hook EXCEPT ![h].pending = @ \ {path}]
            /\ UNCHANGED <<registryVars, initialized, timer, typePc, entityReqs, sent>>
    /\ UNCHANGED <<options, servedTypes, schemaReqs, records, runNodes, panics>>
    /\ UNCHANGED <<token, requestConfig, loginPosts, loginLog>>
    /\ UNCHANGED notRun

\* A schema request of the init of h failed: fetch throws a StrapiSourceError,
\* Promise.all, fetchTypes, init and the hook are rejected with it.
SchemaReject(h, path) ==
    /\ hook[h].pc = "fetchTypes"
    /\ path \in hook[h].pending
    /\ hook' = [hook EXCEPT ![h].pc = "rejected", ![h].pending = @ \ {path},
                            ![h].error = "Failed to query " \o path]
    /\ UNCHANGED <<options, servedTypes, initialized, schemaReqs, typePc, entityReqs, records,
                   runNodes, panics, timer>>
    /\ UNCHANGED <<authVars, registryVars, notRun>>

\* fetchEntities of type t returned n records; their mappings start.
TypeFetchResolve(t, n) ==
    /\ typePc[t] = "fetching"
    /\ records' = [records EXCEPT ![t] = n]
    /\ typePc' = [typePc EXCEPT ![t] = IF n = 0 THEN "ok" ELSE "mapping"]
    /\ UNCHANGED <<options, servedTypes, initialized, hook, schemaReqs, entityReqs, runNodes,
                   panics, timer>>
    /\ UNCHANGED <<authVars, registryVars, notRun>>

\* fetchEntities of type t failed.
TypeFetchReject(t) ==
    /\ typePc[t] = "fetching"
    /\ typePc' = [typePc EXCEPT ![t] = "failed"]
    /\ UNCHANGED <<options, servedTypes, initialized, hook, schemaReqs, entityReqs, records,
                   runNodes, panics, timer>>
    /\ UNCHANGED <<authVars, registryVars, notRun>>

\* Every record of t was mapped and handed to createNode.
TypeMapResolve(t) ==
    /\ typePc[t] = "mapping"
    /\ runNodes' = [runNodes EXCEPT ![t] = records[t]]
    /\ typePc' = [typePc EXCEPT ![t] = "ok"]
    /\ UNCHANGED <<options, servedTypes, initialized, hook, schemaReqs, entityReqs, records,
                   panics, timer>>
    /\ UNCHANGED <<authVars, registryVars, notRun>>

\* The mapping of a record of t failed; the k other records that were mapped
\* were handed to createNode.
TypeMapReject(t, k) ==
    /\ typePc[t] = "mapping"
    /\ k < records[t]
    /\ runNodes' = [runNodes EXCEPT ![t] = k]
    /\ typePc' = [typePc EXCEPT ![t] = "failed"]
    /\ UNCHANGED <<options, servedTypes, initialized, hook, schemaReqs, entityReqs, records,
                   panics, timer>>
    /\ UNCHANGED <<authVars, registryVars, notRun>>

\* The Promise.all over the content types settled: resolved when every task
\* is done, rejected with the first StrapiSourceError, which is reported
\* through reporter.panic; the timer is ended in both cases.
SourceNodesSettle_PanicEach ==
    /\ hook["sourceNodes"].pc = "run"
    /\ \/ /\ \A t \in ApiIDs(contentTypes) : typePc[t] = "ok"
          /\ UNCHANGED panics
       \/ /\ \E t \in ApiIDs(contentTypes) : typePc[t] = "failed"
          /\ panics' = panics + Cardinality({t \in ApiIDs(contentTypes) : typePc[t] = "failed"})
    /\ timer' = [timer EXCEPT !.ended = @ + 1]
    /\ hook' = [hook EXCEPT !["sourceNodes"].pc = "done"]
    /\ UNCHANGED <<options, servedTypes, initialized, schemaReqs, typePc, entityReqs, records,
                   runNodes>>
    /\ UNCHANGED <<authVars, registryVars, notRun>>
SourceNodesSettle ==
    /\ hook["sourceNodes"].pc = "run"
    /\ \/ /\ \A t \in ApiIDs(contentTypes) : typePc[t] = "ok"
          /\ UNCHANGED panics
       \/ /\ \E t \in ApiIDs(contentTypes) : typePc[t] = "failed"
          /\ panics' = panics + 1
    /\ timer' = [timer EXCEPT !.ended = @ + 1]
    /\ hook' = [hook EXCEPT !["sourceNodes"].pc = "done"]
    /\ UNCHANGED <<options, servedTypes, initialized, schemaReqs, typePc, entityReqs, records,
                   runNodes>>
    /\ UNCHANGED <<authVars, registryVars, notRun>>

NextRun ==
    \/ \E h \in Hooks : HookCall(h)
    \/ \E h \in Hooks, jwt \in Tokens : LoginResolve(h, jwt)
    \/ \E h \in Hooks : LoginReject(h)
    \/ \E h \in Hooks, path \in SchemaPaths : SchemaResolve(h, path)
    \/ \E h \in Hooks, path \in SchemaPaths : SchemaReject(h, path)
    \/ \E t \in RunApiIDs, n \in 0..MaxRunRecords : TypeFetchResolve(t, n)
    \/ \E t \in RunApiIDs : TypeFetchReject(t)
    \/ \E t \in RunApiIDs : TypeMapResolve(t)
    \/ \E t \in RunApiIDs, k \in 0..MaxRunRecords : TypeMapReject(t, k)
    \/ SourceNodesSettle

SpecRun == InitRun /\ [][NextRun]_vars

(***************************************************************************)
(* Claims about the run.                                                   *)
(***************************************************************************)

\* The deny-list and the allow-list test of the claim, from the options.
DenyList ==
    IF options.excludedTypes.given THEN options.excludedTypes.list
    ELSE {"user", "role", "permission"}
Allowed(x) == options.allowedTypes.given => x \in options.allowedTypes.list

\* C11: after init the retained content types are the fetched content types
\* that are not on the deny-list ({user, role, permission} when none is
\* configured) and, when an allow-list is configured, are on it, so that a
\* type on both lists is excluded; entities are fetched and handed on as
\* nodes for retained types only, and sourceNodes fetches every retained type.
C11_RetainedTypes ==
    /\ ~initialized => entityReqs = {} /\ \A t \in RunApiIDs : runNodes[t] = 0
    /\ initialized =>
        /\ ApiIDs(contentTypes) = {x \in ApiIDs(servedTypes) : x \notin DenyList /\ Allowed(x)}
        /\ Len(contentTypes) = Cardinality(ApiIDs(contentTypes))
        /\ entityReqs \subseteq ApiIDs(contentTypes)
        /\ \A t \in RunApiIDs :
                (typePc[t] # "idle" \/ records[t] > 0 \/ runNodes[t] > 0)
                    => t \in ApiIDs(contentTypes)
        /\ hook["sourceNodes"].pc \in {"run", "done"} => entityReqs = ApiIDs(contentTypes)

\* article is on both lists and author on the deny-list only: user alone was
\* retained, fetched and handed on.
C11_Witness ==
    /\ initialized
    /\ options.allowedTypes.given /\ options.excludedTypes.given
    /\ "article" \in options.allowedTypes.list \cap options.excludedTypes.list
    /\ {"article", "author", "user"} \subseteq ApiIDs(servedTypes)
    /\ ApiIDs(contentTypes) = {"user"}
    /\ entityReqs = {"user"}
    /\ runNodes["user"] > 0
    /\ hook["sourceNodes"].pc = "done"

\* The number of requests issued for a schema endpoint.
SchemaRequestCount(path) ==
    Cardinality({i \in 1..Len(schemaReqs) : schemaReqs[i].path = path})

\* C12: however the invocations of sourceNodes and createSchemaCustomization
\* follow or overlap each other, each of the two schema endpoints is
\* requested at most once.
C12_SchemaFetchedOnce == \A path \in SchemaPaths : SchemaRequestCount(path) <= 1

\* A schema request of the init of hook h failed.
SchemaFailed(h) ==
    /\ hook[h].pc = "rejected"
    /\ \E path \in SchemaPaths : hook[h].error = "Failed to query " \o path

\* The failures surfaced to the user: the rejected hooks and the panics.
Diagnostics == Cardinality({h \in Hooks : hook[h].pc = "rejected"}) + panics

\* C13: when a schema request has failed, each schema endpoint was requested
\* at most once, no entity request was issued, no node was handed to
\* createNode, and the failure surfaced as one diagnostic.
C13_SchemaFailureAborts ==
    (\E h \in Hooks : SchemaFailed(h)) =>
        /\ \A path \in SchemaPaths : SchemaRequestCount(path) <= 1
        /\ entityReqs = {}
        /\ \A t \in RunApiIDs : runNodes[t] = 0
        /\ Diagnostics = 1

\* The invocations whose fetchTypes assigned the two registry maps.
RegistryLoads == Cardinality({h \in Hooks : hook[h].loaded})

\* C21: the two registry maps are both unset or both set from one pair of
\* schema responses, and once set they are not assigned again by a later or
\* overlapping invocation of sourceNodes or createSchemaCustomization.
C21_RegistryBuiltOnce ==
    /\ RegistryLoads = 0 => (contentTypeMap = <<>> /\ componentTypeMap = <<>>)
    /\ RegistryLoads >= 1 =>
            /\ contentTypeMap = ByApiID(servedTypes)
            /\ componentTypeMap = ComponentsByUid
    /\ RegistryLoads <= 1

\* The per-type tasks of sourceNodes that failed, in fetchEntities or in the
\* mapping of a record.
FailedTypes == {t \in RunApiIDs : typePc[t] = "failed"}

LoginFailed(h) ==
    /\ hook[h].pc = "rejected"
    /\ hook[h].error \in {"Empty identifier", "Empty password", "Auth request error"}

\* The schema requests issued by the invocation of hook h.
SchemaRequestsOf(h) == {i \in 1..Len(schemaReqs) : schemaReqs[i].hook = h}

\* C31: with login data configured, every schema or entity request was issued
\* after a login was answered and carries "Bearer " and the token of the
\* last login answered before it; with an empty identifier or password
\* nothing is posted and nothing requested; and an invocation whose login
\* failed or returned no token issued no schema request, and when it is
\* sourceNodes, no entity request was issued and no node was created.
C31_LoginFirst ==
    options.loginData.given =>
        /\ Len(loginLog) <= loginPosts
        /\ \A r \in sent :
                /\ r.logins \in 1..Len(loginLog)
                /\ r.auth = "Bearer " \o loginLog[r.logins]
        /\ \A i \in 1..Len(schemaReqs) :
                \E r \in sent : r.path = schemaReqs[i].path
        /\ \A t \in entityReqs : \E r \in sent : r.path = t
        /\ (options.loginData.identifier = "" \/ options.loginData.password = "") =>
                /\ loginPosts = 0
                /\ sent = {} /\ schemaReqs = <<>> /\ entityReqs = {}
                /\ \A h \in Hooks : hook[h].pc \in {"idle", "rejected"}
        /\ \A h \in Hooks :
                LoginFailed(h) =>
                    /\ SchemaRequestsOf(h) = {}
                    /\ h = "sourceNodes" =>
                            /\ entityReqs = {}
                            /\ \A t \in RunApiIDs : runNodes[t] = 0 /\ typePc[t] = "idle"

\* Both hooks logged in and got different tokens: the schema requests carry
\* the first token or the second, the entity requests of the finished
\* sourceNodes the second.
C31_Witness ==
    /\ options.loginData.given
    /\ loginLog = <<"jwt1", "jwt2">>
    /\ hook["sourceNodes"].pc = "done"
    /\ \E r \in sent : r.path = ContentTypesPath /\ r.auth = "Bearer jwt1"
    /\ \E r \in sent : r.path = "article" /\ r.auth = "Bearer jwt2"
    /\ runNodes["article"] > 0

\* The three tables as init sets them from the served schema and the options.
TablesSet ==
    /\ contentTypeMap = ByApiID(servedTypes)
    /\ componentTypeMap = ComponentsByUid
    /\ contentTypes = Retained(servedTypes, ExcludedTypes(options.excludedTypes),
                               options.allowedTypes)

\* The init of hook h ran to its end: its login and its two schema requests
\* were answered and it filtered the content types.
InitCompleted(h) ==
    /\ hook[h].loaded
    /\ hook[h].pending = {}
    /\ {schemaReqs[i].path : i \in SchemaRequestsOf(h)} = SchemaPaths
    /\ options.loginData.given => loginLog # <<>>

InitializedMeansComplete ==
    /\ initialized => TablesSet /\ \E h \in Hooks : InitCompleted(h)
    /\ (\A h \in Hooks : ~hook[h].loaded) => ~initialized
    /\ \A h \in Hooks : hook[h].pc \in {"run", "done"} => initialized

\* A step in which the init of hook h fails.
InitFails(h) == hook[h].pc \in {"idle", "login", "fetchTypes"} /\ hook'[h].pc = "rejected"

InitializedStep ==
    /\ initialized => initialized'
    /\ (~initialized /\ initialized') =>
            \E h \in Hooks : hook[h].pc = "fetchTypes" /\ ~InitFails(h) /\ hook'[h].loaded
    /\ \A h \in Hooks :
            /\ InitFails(h) => ~initialized'
            /\ (~initialized /\ hook[h].pc = "idle" /\ hook'[h].pc # "idle") =>
                    /\ schemaReqs' = schemaReqs /\ sent' = sent
                    /\ \/ /\ hook'[h].pc = "login"
                          /\ loginPosts' =
                                loginPosts + (IF options.loginData.given THEN 1 ELSE 0)
                       \/ /\ hook'[h].pc = "rejected"
                          /\ hook'[h].error \in {"Empty identifier", "Empty password"}
                          /\ loginPosts' = loginPosts

\* C32: initialized is true only when an init ran to its end (login, both
\* schema requests and the filtering), and then the content-type table, the
\* component table and the retained types are set; the flag is set by the
\* step that completes an init and by no other, the flag is false after a
\* step in which an init fails, and a hook invoked while it is false runs
\* init from the login step before any schema request.
C32_InitializedFlag == []InitializedMeansComplete /\ [][InitializedStep]_vars

====
